---- MODULE Spec2Model ----
(***************************************************************************)
(* Model of the weekly-report note matcher (src/src/granola_scanner.py),   *)
(* of the calendar helpers it depends on (src/src/google_calendar.py), of  *)
(* the summarization client (src/src/ollama_client.py) and of the report   *)
(* pipeline (src/weekly_report.py).                                        *)
(*                                                                         *)
(* Strings are sequences of one-character strings, so that lower-casing,   *)
(* splitting, token sorting, substring tests and the similarity score are  *)
(* computed the way the code computes them.  Dates are day ordinals: the   *)
(* code compares ISO "YYYY-MM-DD" strings, whose order and equality are    *)
(* those of the days they name.                                            *)
(***************************************************************************)
EXTENDS Integers, Sequences, FiniteSets, TLC

VARIABLES
    folder_id,      \* settings["granola_folder_id"]
    token_exists,   \* token.json is present
    today,          \* datetime.now(), as a day ordinal
    files,          \* the Drive folder's listing, in listing order
    meetings,       \* the meetings argument of get_notes_for_meetings
    deals,          \* the deals argument: domain -> company name
    pc,             \* position of the call in progress
    run,            \* 1 for the first call of get_notes_for_meetings, 2 for the second
    notes,          \* local notes: the scanned notes, in dict insertion order
    i,              \* number of meetings the loop has processed
    calls,          \* the calls of match_meeting_to_note made so far, each with
                    \* its meeting, company_name, threshold and returned note
    matched,        \* local matched: event_id -> [meeting, note]
    result,         \* value returned by get_notes_for_meetings
    exception,      \* exception that left the call, "none" otherwise
    prev_result,    \* value the first call returned, kept for the second
    agency_partners,\* get_partners()[0]: the agency partners, in file order
    tech_partners,  \* get_partners()[1]: the tech partners, in file order
    mailbox,        \* Gmail: domain -> the threads search_domain_threads finds
    entity_domain,  \* the entity_domain argument of build_context
    data,           \* the dict collect_data returns
    context,        \* the string build_context returned
    args,           \* the command-line flags of main
    ollama,         \* what start_ollama finds: the state of the Ollama server
    setup_ok,       \* verify_ollama_setup succeeds
    we_started_ollama, \* main's we_started_ollama
    todo,           \* the entities synthesize_updates has still to process
    reply,          \* the outcome of the request synthesize made last
    summary,        \* the string synthesize returned last
    deal_updates,   \* synthesize_updates: name -> summary, in insertion order
    agency_updates,
    tech_updates,
    events,         \* the calls main has made, in order
    exit_code,      \* the exit status of the process, -1 while it runs
    raw_text,       \* the content argument of parse_content_sections
    parse_result,   \* the list parse_content_sections returned
    output_folder_id, \* settings["output_folder_id"]
    report_date,    \* the report_date argument of the publishers
    docs,           \* the documents of the user's Drive, oldest first
    requests,       \* generate_report: the requests build_document_requests returned
    report_lines,   \* generate_markdown_report: the lines written to the file
    calendar,       \* the events the Calendar API lists for the lookback window
    active_deals,   \* config/active_deals.json: the list of deals on disk
    loaded_deals,   \* run_interview: the list deals loaded for the review
    response        \* run_interview: the line typed at the removal prompt

vars == <<folder_id, token_exists, today, files, meetings, deals, pc, run, notes,
          i, calls, matched, result, exception, prev_result,
          agency_partners, tech_partners, mailbox, entity_domain, data, context,
          args, ollama, setup_ok, we_started_ollama, todo, reply, summary,
          deal_updates, agency_updates, tech_updates, events, exit_code,
          raw_text, parse_result, output_folder_id, report_date, docs, requests,
          report_lines, calendar, active_deals, loaded_deals, response>>

\* the variables of the report generator, the calendar client and the
\* interview
reportVars == <<raw_text, parse_result, output_folder_id, report_date, docs,
                requests, report_lines, calendar, active_deals, loaded_deals,
                response>>

\* the variables of the report pipeline (weekly_report.py)
pipeVars == <<agency_partners, tech_partners, mailbox, entity_domain, data, context,
              args, ollama, setup_ok, we_started_ollama, todo, reply, summary,
              deal_updates, agency_updates, tech_updates, events, exit_code,
              reportVars>>

\* the variables of main and synthesize_updates
mainVars == <<args, ollama, setup_ok, we_started_ollama, todo, reply, summary,
              deal_updates, agency_updates, tech_updates, events, exit_code>>

----------------------------------------------------------------------------
(* Bounds of the model. *)

MaxMeetings == 2
MaxNotes == 2
MaxEvents == 2
MaxEntries == 2

----------------------------------------------------------------------------
(* Characters and strings. *)

\* The characters the model uses, in code-point order (Python compares str
\* by code point): line feed, space, punctuation, digits, upper case, lower
\* case.
Alphabet ==
    <<"\n", " ", "#", "*", "-", ".",
      "0", "1", "2", "3", "4", "5", "6", "7", "8", "9", ":", "@",
      "A", "B", "C", "D", "E", "F", "G", "H", "I", "J", "K", "L", "M",
      "N", "O", "P", "Q", "R", "S", "T", "U", "V", "W", "X", "Y", "Z",
      "a", "b", "c", "d", "e", "f", "g", "h", "i", "j", "k", "l", "m",
      "n", "o", "p", "q", "r", "s", "t", "u", "v", "w", "x", "y", "z">>

Ord(c) == CHOOSE k \in 1..Len(Alphabet) : Alphabet[k] = c

IsUpper(c) == Ord(c) >= Ord("A") /\ Ord(c) <= Ord("Z")

\* str.lower()
Lower(s) ==
    [k \in 1..Len(s) |->
        IF IsUpper(s[k]) THEN Alphabet[Ord(s[k]) - Ord("A") + Ord("a")] ELSE s[k]]

\* s1 < s2 for Python str
RECURSIVE LexLess(_, _)
LexLess(s1, s2) ==
    IF s2 = <<>> THEN FALSE
    ELSE IF s1 = <<>> THEN TRUE
    ELSE IF Head(s1) # Head(s2) THEN Ord(Head(s1)) < Ord(Head(s2))
    ELSE LexLess(Tail(s1), Tail(s2))

\* sub in s
IsSubstring(sub, s) ==
    \E k \in 0..(Len(s) - Len(sub)) : SubSeq(s, k + 1, k + Len(sub)) = sub

\* s.replace(old, new) for single characters
ReplaceChar(s, old, new) ==
    [k \in 1..Len(s) |-> IF s[k] = old THEN new ELSE s[k]]

\* s.split(sep)[0]
BeforeFirst(s, sep) ==
    IF \E k \in 1..Len(s) : s[k] = sep
    THEN SubSeq(s, 1, (CHOOSE k \in 1..Len(s) :
                          s[k] = sep /\ \A j \in 1..(k - 1) : s[j] # sep) - 1)
    ELSE s

\* s.split(sep)[1] when sep occurs once
AfterFirst(s, sep) ==
    LET k == CHOOSE k \in 1..Len(s) : s[k] = sep /\ \A j \in 1..(k - 1) : s[j] # sep
        rest == SubSeq(s, k + 1, Len(s))
    IN BeforeFirst(rest, sep)

\* s.split(): the whitespace-separated tokens of s, empty tokens dropped
RECURSIVE SplitAcc(_, _, _)
SplitAcc(s, cur, acc) ==
    IF s = <<>> THEN (IF cur = <<>> THEN acc ELSE Append(acc, cur))
    ELSE IF Head(s) = " "
         THEN SplitAcc(Tail(s), <<>>, IF cur = <<>> THEN acc ELSE Append(acc, cur))
         ELSE SplitAcc(Tail(s), Append(cur, Head(s)), acc)

Split(s) == SplitAcc(s, <<>>, <<>>)

\* insertion of token t into the sorted token list ts
RECURSIVE InsertSorted(_, _)
InsertSorted(t, ts) ==
    IF ts = <<>> THEN <<t>>
    ELSE IF LexLess(Head(ts), t) THEN <<Head(ts)>> \o InsertSorted(t, Tail(ts))
    ELSE <<t>> \o ts

\* sorted(tokens)
RECURSIVE Sorted(_)
Sorted(ts) == IF ts = <<>> THEN <<>> ELSE InsertSorted(Head(ts), Sorted(Tail(ts)))

\* sep.join(parts)
RECURSIVE Join(_, _)
Join(parts, sep) ==
    IF parts = <<>> THEN <<>>
    ELSE IF Len(parts) = 1 THEN parts[1]
    ELSE parts[1] \o sep \o Join(Tail(parts), sep)

----------------------------------------------------------------------------
(* Similarity scoring: rapidfuzz.fuzz.token_sort_ratio.                    *)

Max(a, b) == IF a >= b THEN a ELSE b

\* One row of the longest-common-subsequence table: the row of character c
\* of the first string against b, from the previous row.  row[k] is the
\* cell of the first k - 1 characters of b.
RECURSIVE LcsRow(_, _, _, _)
LcsRow(c, b, prevRow, acc) ==
    IF Len(acc) = Len(b) + 1 THEN acc
    ELSE LET k == Len(acc) + 1
         IN LcsRow(c, b, prevRow,
                   Append(acc, IF b[k - 1] = c
                               THEN prevRow[k - 1] + 1
                               ELSE Max(prevRow[k], acc[k - 1])))

RECURSIVE LcsRows(_, _, _)
LcsRows(a, b, n) ==
    IF n = 0 THEN [k \in 1..(Len(b) + 1) |-> 0]
    ELSE LcsRow(a[n], b, LcsRows(a, b, n - 1), <<0>>)

\* length of the longest common subsequence of a and b
LCS(a, b) == LcsRows(a, b, Len(a))[Len(b) + 1]

\* fuzz.ratio: the normalized Indel similarity, 100 * (1 - dist / (|a| + |b|))
\* with dist = |a| + |b| - 2 * LCS, and 100 for two empty strings.  The score
\* is kept as the exact fraction num / den.
Ratio(a, b) ==
    IF Len(a) + Len(b) = 0 THEN [num |-> 100, den |-> 1]
    ELSE [num |-> 200 * LCS(a, b), den |-> Len(a) + Len(b)]

\* fuzz.token_sort_ratio: both strings split on whitespace, their tokens
\* sorted and joined by one space, then fuzz.ratio.  The strings compared
\* here are lower-case letters and spaces, which the default preprocessing
\* of older rapidfuzz releases leaves as they are.
token_sort_ratio(s1, s2) ==
    Ratio(Join(Sorted(Split(s1)), <<" ">>), Join(Sorted(Split(s2)), <<" ">>))

\* the comparison with > for >=
MutAtLeast(ratio, t) == ratio.num > t * ratio.den

\* ratio >= threshold
AtLeast(ratio, t) == ratio.num >= t * ratio.den

----------------------------------------------------------------------------
(* match_meeting_to_note.                                                  *)

Range(seq) == {seq[k] : k \in 1..Len(seq)}

\* None, and a returned note: the result is a sequence of at most one note
NoNote == <<>>

\* the name an attendee entry is compared by (lines 200-204)
EmailName(meeting_attendee) ==
    IF \E k \in 1..Len(meeting_attendee) : meeting_attendee[k] = "@"
    THEN ReplaceChar(BeforeFirst(meeting_attendee, "@"), ".", " ")
    ELSE meeting_attendee

\* the attendee-name strategy returns note n (lines 195-209)
AttendeeHit(meeting_attendees, n, t) ==
    /\ n.attendees # <<>>
    /\ \E ma \in Range(meeting_attendees) : \E na \in Range(n.attendees) :
          AtLeast(token_sort_ratio(Lower(EmailName(ma)), Lower(na)), t)

\* the company-name strategy without its fuzzy comparison of the company label
MutCompanyHit(cname, n, t) ==
    \E a \in Range(n.attendees) : IsSubstring(Lower(cname), Lower(a))

\* the company-name strategy returns note n (lines 214-223)
CompanyHit(cname, n, t) ==
    \/ /\ n.company # <<>>
       /\ AtLeast(token_sort_ratio(Lower(cname), Lower(n.company)), t)
    \/ \E a \in Range(n.attendees) : IsSubstring(Lower(cname), Lower(a))

\* the synthesized descriptor of the title strategy (line 238)
NoteDesc(n) == n.company \o <<" ">> \o n.topic \o <<" ">> \o Join(n.attendees, <<" ">>)

\* the title strategy returns note n (lines 228-241)
TitleHit(title, n, t) ==
    \/ n.company # <<>> /\ IsSubstring(Lower(n.company), Lower(title))
    \/ \E a \in Range(n.attendees) : IsSubstring(Lower(a), Lower(title))
    \/ AtLeast(token_sort_ratio(Lower(title), Lower(NoteDesc(n))), t)

\* the matcher without its date filter
MutDateNotes(meeting_date, ns) == ns

\* the notes of the meeting's date, in dict order (line 188)
DateNotes(meeting_date, ns) ==
    LET SameDate(n) == n.date = meeting_date IN SelectSeq(ns, SameDate)

\* the first note of ns (in dict order) whose flag in hits is set
FirstHit(ns, hits) ==
    LET k == CHOOSE k \in 1..Len(ns) : hits[k] /\ \A j \in 1..(k - 1) : ~hits[j]
    IN <<ns[k]>>

\* some flag of hits is set
Some(hits) == \E k \in 1..Len(hits) : hits[k]

\* the matcher with the company-name strategy tried before the attendee-name one
MutMatchCompanyFirst(meeting_date, meeting_title, meeting_attendees, cname, ns, t) ==
    LET date_notes == DateNotes(meeting_date, ns)
        ByAttendee == [k \in 1..Len(date_notes) |->
                          AttendeeHit(meeting_attendees, date_notes[k], t)]
        ByCompany == [k \in 1..Len(date_notes) |-> CompanyHit(cname, date_notes[k], t)]
        ByTitle == [k \in 1..Len(date_notes) |-> TitleHit(meeting_title, date_notes[k], t)]
    IN IF date_notes = <<>> THEN NoNote
       ELSE IF cname # <<>> /\ Some(ByCompany) THEN FirstHit(date_notes, ByCompany)
       ELSE IF Some(ByAttendee) THEN FirstHit(date_notes, ByAttendee)
       ELSE IF meeting_title # <<>> /\ Some(ByTitle) THEN FirstHit(date_notes, ByTitle)
       ELSE NoNote

match_meeting_to_note(meeting_date, meeting_title, meeting_attendees, cname, ns, t) ==
    LET date_notes == DateNotes(meeting_date, ns)
        ByAttendee == [k \in 1..Len(date_notes) |->
                          AttendeeHit(meeting_attendees, date_notes[k], t)]
        ByCompany == [k \in 1..Len(date_notes) |-> CompanyHit(cname, date_notes[k], t)]
        ByTitle == [k \in 1..Len(date_notes) |-> TitleHit(meeting_title, date_notes[k], t)]
    IN IF date_notes = <<>> THEN NoNote
       ELSE IF Some(ByAttendee) THEN FirstHit(date_notes, ByAttendee)
       ELSE IF cname # <<>> /\ Some(ByCompany) THEN FirstHit(date_notes, ByCompany)
       ELSE IF meeting_title # <<>> /\ Some(ByTitle) THEN FirstHit(date_notes, ByTitle)
       ELSE NoNote

----------------------------------------------------------------------------
(* Calendar helpers: src/src/google_calendar.py.                           *)

\* settings["internal_domain"]
internal_domain == <<"m", "y", ".", "c", "o">>

extract_domain(email) ==
    IF \E k \in 1..Len(email) : email[k] = "@"
    THEN Lower(AfterFirst(email, "@"))
    ELSE <<>>

get_external_domains(attendees, internal) ==
    {extract_domain(e) : e \in {a \in Range(attendees) :
        extract_domain(a) # <<>> /\ extract_domain(a) # internal}}

\* is_internal_only without the loop over the attendees
MutIsInternalOnly(attendees, internal) == attendees = <<>>

is_internal_only(attendees, internal) ==
    \/ attendees = <<>>
    \/ \A a \in Range(attendees) :
          ~(extract_domain(a) # <<>> /\ extract_domain(a) # internal)

\* the meeting dict fetch_meetings appends for an event (lines 142-150);
\* the fields no matcher code reads (start_time, end_time) are left out
Meeting(id, date, title, attendees) ==
    [event_id |-> id, date |-> date, title |-> title, attendees |-> attendees,
     domains |-> get_external_domains(attendees, internal_domain)]

----------------------------------------------------------------------------
(* The inputs the model draws from.                                        *)

s_me    == <<"m", "e", "@", "m", "y", ".", "c", "o">>
s_joli  == <<"j", "o", ".", "l", "i", "@", "a", "c", "m", "e", ".", "c", "o", "m">>
s_al    == <<"a", "l", "@", "B", "o", "l", "t", ".", "i", "o">>
s_kim   == <<"k", "i", "m", "@", "z", "e", "d", ".", "i", "o">>
s_LiJo  == <<"L", "i", " ", "J", "o">>
s_Acme  == <<"A", "c", "m", "e">>
s_Bolt  == <<"B", "o", "l", "t">>
s_Sync  == <<"S", "y", "n", "c">>
s_acme_com == <<"a", "c", "m", "e", ".", "c", "o", "m">>
s_bolt_io  == <<"b", "o", "l", "t", ".", "i", "o">>
t_AcmeSync == <<"A", "c", "m", "e", " ", "S", "y", "n", "c">>
t_Intro    == <<"I", "n", "t", "r", "o">>
t_ZedDemo  == <<"Z", "e", "d", " ", "d", "e", "m", "o">>

\* The calendar events of the lookback window that fetch_meetings keeps, in
\* start-time order (orderBy="startTime"); event ids are unique in a calendar.
MeetingPool ==
    <<Meeting("e1", 20, t_AcmeSync, <<s_me, s_joli>>),
      Meeting("e2", 20, t_Intro, <<s_joli, s_al>>),
      Meeting("e3", 21, t_ZedDemo, <<s_kim>>)>>

\* A file of the Drive folder: its name, what parse_granola_filename makes
\* of the name (parsed = FALSE for None), and whether its download succeeds.
\* An ISO-datetime name gives attendees and no company; a simple-date name
\* gives a company and no attendees.
File(name, parsed, date, attendees, company, topic, readable, content) ==
    [name |-> name, parsed |-> parsed, date |-> date, attendees |-> attendees,
     company |-> company, topic |-> topic, readable |-> readable,
     content |-> content]

\* The content of a file is the text its download gives: f_bolt20 is an
\* empty document.
f_lijo20 == File("f_lijo20", TRUE, 20, <<s_LiJo>>, <<>>, <<>>, TRUE, <<"n", "1">>)
f_acme20 == File("f_acme20", TRUE, 20, <<>>, s_Acme, s_Sync, TRUE, <<"n", "2">>)
f_bolt20 == File("f_bolt20", TRUE, 20, <<>>, s_Bolt, <<>>, TRUE, <<>>)
f_lijo21 == File("f_lijo21", TRUE, 21, <<s_LiJo>>, <<>>, <<>>, TRUE, <<"n", "4">>)

FilePool ==
    {f_lijo20, f_acme20, f_bolt20, f_lijo21,
     File("f_old", TRUE, 10, <<s_LiJo>>, <<>>, <<>>, TRUE, <<"n", "5">>),
     File("f_bad", TRUE, 20, <<s_LiJo>>, <<>>, <<>>, FALSE, <<"n", "6">>),
     File("readme", FALSE, 0, <<>>, <<>>, <<>>, TRUE, <<"n", "7">>)}

\* The deals mappings (domain -> company name) the model draws from.
DealsPool ==
    {[d \in {s_acme_com, s_bolt_io} |-> IF d = s_acme_com THEN s_Acme ELSE s_Bolt],
     [d \in {s_bolt_io} |-> s_Bolt]}

\* the sequences without repetition of at most n elements of S
SeqsUpTo(S, n) ==
    UNION {{q \in [1..k -> S] : \A a, b \in 1..k : a # b => q[a] # q[b]} : k \in 0..n}

\* the subsequences of seq with between 1 and n elements
SubSeqsUpTo(seq, n) ==
    {q \in UNION {[1..k -> Range(seq)] : k \in 1..n} :
        \E idx \in [1..Len(q) -> 1..Len(seq)] :
            /\ \A a \in 1..Len(q) : q[a] = seq[idx[a]]
            /\ \A a, b \in 1..Len(q) : a < b => idx[a] < idx[b]}

----------------------------------------------------------------------------
(* scan_drive_notes.                                                       *)

\* settings.get("lookback_days", 7)
lookback_days == 7

DefaultThreshold == 60

\* the note dict built for a file (lines 160-167)
NoteOf(f) ==
    [date |-> f.date, attendees |-> f.attendees, company |-> f.company,
     topic |-> f.topic, content |-> f.content, filename |-> f.name]

\* the dict key of a note (line 158)
KeyOf(n) == <<n.date, n.filename>>

\* notes[key] = value on an insertion-ordered dict: an existing key keeps its
\* position and takes the new value, a new key goes last
DictSet(ns, n) ==
    IF \E k \in 1..Len(ns) : KeyOf(ns[k]) = KeyOf(n)
    THEN [k \in 1..Len(ns) |-> IF KeyOf(ns[k]) = KeyOf(n) THEN n ELSE ns[k]]
    ELSE Append(ns, n)

\* the loop over the listed files (lines 136-167)
RECURSIVE ScanFiles(_, _, _)
ScanFiles(fs, cutoff, acc) ==
    IF fs = <<>> THEN acc
    ELSE LET f == Head(fs)
         IN IF ~f.parsed THEN ScanFiles(Tail(fs), cutoff, acc)
            ELSE IF f.date < cutoff THEN ScanFiles(Tail(fs), cutoff, acc)
            ELSE IF ~f.readable THEN ScanFiles(Tail(fs), cutoff, acc)
            ELSE ScanFiles(Tail(fs), cutoff, DictSet(acc, NoteOf(f)))

\* The outcome of scan_drive_notes: the notes it returns, or the exception
\* that leaves it.  listing_ok is whether files().list().execute() succeeds.
scan_drive_notes(fid, token, listing_ok, fs, now) ==
    IF fid = "" THEN [notes |-> <<>>, exception |-> "none"]
    ELSE IF ~token THEN [notes |-> <<>>, exception |-> "FileNotFoundError"]
    ELSE IF ~listing_ok THEN [notes |-> <<>>, exception |-> "HttpError"]
    ELSE [notes |-> ScanFiles(fs, now - lookback_days, <<>>), exception |-> "none"]

----------------------------------------------------------------------------
(* get_notes_for_meetings.                                                 *)

EmptyDict == [k \in {} |-> k]

DictPut(d, k, v) == [x \in (DOMAIN d) \cup {k} |-> IF x = k THEN v ELSE d[x]]

\* the orders in which a set can be iterated
Orders(S) == {q \in [1..Cardinality(S) -> S] : Range(q) = S}

\* the resolver leaving the loop after the first domain, tracked or not
MutResolveCompany(order, d) ==
    IF order # <<>> /\ order[1] \in DOMAIN d THEN d[order[1]] ELSE <<>>

\* the company name of a meeting (lines 276-280); order is the order in
\* which the for loop visits the meeting's domain set
ResolveCompany(order, d) ==
    IF \E k \in 1..Len(order) : order[k] \in DOMAIN d
    THEN d[order[CHOOSE k \in 1..Len(order) :
                    order[k] \in DOMAIN d /\ \A j \in 1..(k - 1) : order[j] \notin DOMAIN d]]
    ELSE <<>>

\* the loop body rebinding matched to a one-entry dict instead of adding to it
MutRecord(m, n, d) ==
    IF n # NoNote
    THEN [x \in {m.event_id} |-> [meeting |-> m, note |-> n[1]]]
    ELSE d

\* matched after the loop body has run for meeting m with note n (lines 291-295)
Record(m, n, d) ==
    IF n # NoNote THEN DictPut(d, m.event_id, [meeting |-> m, note |-> n[1]]) ELSE d

\* one call of match_meeting_to_note, as the model logs it
Call(m, cname, t, n) == [meeting |-> m, company_name |-> cname, threshold |-> t, note |-> n]

\* main has not been started
\* the report generator has not been called
ReportIdle ==
    /\ raw_text = <<>>
    /\ parse_result = <<>>
    /\ output_folder_id = <<>>
    /\ report_date = <<>>
    /\ docs = <<>>
    /\ requests = <<>>
    /\ report_lines = <<>>
    /\ calendar = <<>>
    /\ active_deals = <<>>
    /\ loaded_deals = <<>>
    /\ response = <<>>

MainIdle ==
    /\ args = EmptyDict
    /\ ollama = "running"
    /\ setup_ok = TRUE
    /\ we_started_ollama = FALSE
    /\ todo = <<>>
    /\ reply = EmptyDict
    /\ summary = <<>>
    /\ deal_updates = <<>>
    /\ agency_updates = <<>>
    /\ tech_updates = <<>>
    /\ events = <<>>
    /\ exit_code = -1
    /\ ReportIdle

\* the report pipeline has not been started
PipeIdle ==
    /\ agency_partners = <<>>
    /\ tech_partners = <<>>
    /\ mailbox = EmptyDict
    /\ entity_domain = <<>>
    /\ data = EmptyDict
    /\ context = <<>>
    /\ MainIdle

TypeOK ==
    /\ folder_id \in {"", "fid"}
    /\ token_exists \in BOOLEAN
    /\ pc \in {"start", "loop", "done", "raised", "match", "context", "built",
              "synth_call", "synth_done", "main", "check", "dry_run", "interview",
              "load", "collect", "synth", "commit", "finally", "exited",
              "parse", "parsed", "report", "report_done", "report_failed",
              "markdown_done", "fetch", "fetched", "classify", "review",
              "reviewed"}
    /\ run \in {1, 2}
    /\ i \in 0..Len(meetings)
    /\ \A k \in 1..Len(calls) : Len(calls[k].note) <= 1
    /\ exception \in {"none", "FileNotFoundError", "HttpError", "JSONDecodeError",
                      "AttributeError", "ImportError", "OSError"}

Init ==
    /\ folder_id \in {"", "fid"}
    /\ token_exists \in BOOLEAN
    /\ today = 22
    /\ files \in SeqsUpTo(FilePool, MaxNotes)
    /\ meetings \in SubSeqsUpTo(MeetingPool, MaxMeetings)
    /\ deals \in DealsPool
    /\ pc = "start"
    /\ run = 1
    /\ notes = <<>>
    /\ i = 0
    /\ calls = <<>>
    /\ matched = EmptyDict
    /\ result = EmptyDict
    /\ exception = "none"
    /\ prev_result = EmptyDict
    /\ PipeIdle

\* lines 261-268: the scan, the early return on no notes, or the exception
\* of the scan leaving the call
Scan ==
    /\ pc = "start"
    /\ \E listing_ok \in BOOLEAN :
          LET out == scan_drive_notes(folder_id, token_exists, listing_ok, files, today)
          IN /\ notes' = out.notes
             /\ exception' = out.exception
             /\ pc' = IF out.exception # "none" THEN "raised"
                      ELSE IF out.notes = <<>> THEN "done"
                      ELSE "loop"
    /\ i' = 0
    /\ calls' = <<>>
    /\ matched' = EmptyDict
    /\ result' = EmptyDict
    /\ UNCHANGED <<folder_id, token_exists, today, files, meetings, deals, run,
                   prev_result>>
    /\ UNCHANGED pipeVars

\* the resolver given the names of the partners as well
MutResolverMapping ==
    [d \in (DOMAIN deals)
            \cup {agency_partners[k].domain : k \in 1..Len(agency_partners)}
            \cup {tech_partners[k].domain : k \in 1..Len(tech_partners)} |->
        IF d \in DOMAIN deals THEN deals[d]
        ELSE IF \E k \in 1..Len(agency_partners) : agency_partners[k].domain = d
        THEN agency_partners[CHOOSE k \in 1..Len(agency_partners) :
                                agency_partners[k].domain = d].name
        ELSE tech_partners[CHOOSE k \in 1..Len(tech_partners) :
                              tech_partners[k].domain = d].name]

\* the mapping the company name is looked up in: the deals argument, which
\* collect_data sets to the deals alone (weekly_report.py line 160)
ResolverMapping == deals

\* lines 270-295: one iteration of the loop over the meetings
MatchMeeting ==
    /\ pc = "loop"
    /\ i < Len(meetings)
    /\ LET meeting == meetings[i + 1]
       IN \E order \in Orders(meeting.domains) :
             LET cname == ResolveCompany(order, ResolverMapping)
                 n == match_meeting_to_note(meeting.date, meeting.title,
                                            meeting.attendees, cname, notes,
                                            DefaultThreshold)
             IN /\ calls' = Append(calls, Call(meeting, cname, DefaultThreshold, n))
                /\ matched' = Record(meeting, n, matched)
    /\ i' = i + 1
    /\ UNCHANGED <<folder_id, token_exists, today, files, meetings, deals, pc,
                   run, notes, result, exception, prev_result>>
    /\ UNCHANGED pipeVars

\* line 297
Return ==
    /\ pc = "loop"
    /\ i = Len(meetings)
    /\ result' = matched
    /\ pc' = "done"
    /\ UNCHANGED <<folder_id, token_exists, today, files, meetings, deals, run,
                   notes, i, calls, matched, exception, prev_result>>
    /\ UNCHANGED pipeVars

\* get_notes_for_meetings is called again with the same meetings and deals,
\* the settings, the token and the Drive folder being what they were
Rerun ==
    /\ pc = "done"
    /\ run = 1
    /\ run' = 2
    /\ prev_result' = result
    /\ pc' = "start"
    /\ UNCHANGED <<folder_id, token_exists, today, files, meetings, deals, notes,
                   i, calls, matched, result, exception>>
    /\ UNCHANGED pipeVars

Next == Scan \/ MatchMeeting \/ Return \/ Rerun

Spec == Init /\ [][Next]_vars

----------------------------------------------------------------------------
(* match_meeting_to_note called on its own, with the threshold an          *)
(* argument.  The notes are dicts that may carry, besides the keys         *)
(* scan_drive_notes sets, an event_id key naming a calendar event; the     *)
(* function reads the keys it reads.                                       *)

IdNote(filename, date, attendees, company, topic, id) ==
    [date |-> date, attendees |-> attendees, company |-> company, topic |-> topic,
     content |-> <<>>, filename |-> filename, event_id |-> id]

s_JoNg  == <<"J", "o", " ", "N", "g">>
s_AcmOy == <<"A", "c", "m", " ", "O", "y">>
s_Ino   == <<"I", "n", "o">>
s_t     == <<"t">>
s_Zed   == <<"Z", "e", "d">>
s_Zqq   == <<"Z", "q", "q", "q", "q", "q", "q">>

MatchNotePool ==
    {IdNote("b_jong", 20, <<s_JoNg>>, <<>>, <<>>, ""),
     IdNote("b_acmoy", 20, <<>>, s_AcmOy, <<>>, ""),
     IdNote("b_ino", 20, <<>>, s_Ino, s_t, ""),
     IdNote("b_zed", 20, <<>>, s_Zed, <<>>, "e2"),
     IdNote("b_topic", 20, <<>>, s_Zqq, t_Intro, ""),
     IdNote("b_lijo", 21, <<s_LiJo>>, <<>>, <<>>, "")}

CompanyNames == {<<>>, s_Acme, s_Bolt}

Thresholds == {DefaultThreshold, DefaultThreshold + 1}

InitMatch ==
    /\ folder_id = "fid"
    /\ token_exists = TRUE
    /\ today = 22
    /\ files = <<>>
    /\ meetings \in {<<MeetingPool[k]>> : k \in 1..Len(MeetingPool)}
    /\ deals = EmptyDict
    /\ pc = "match"
    /\ run = 1
    /\ notes \in SeqsUpTo(MatchNotePool, MaxNotes)
    /\ i = 0
    /\ calls = <<>>
    /\ matched = EmptyDict
    /\ result = EmptyDict
    /\ exception = "none"
    /\ prev_result = EmptyDict
    /\ PipeIdle

\* one call match_meeting_to_note(date, title, attendees, company_name, notes,
\* threshold); calls holds the call made last
CallMatch ==
    /\ pc = "match"
    /\ \E cname \in CompanyNames : \E t \in Thresholds :
          LET m == meetings[1]
          IN calls' = <<Call(m, cname, t,
                             match_meeting_to_note(m.date, m.title, m.attendees,
                                                   cname, notes, t))>>
    /\ UNCHANGED <<folder_id, token_exists, today, files, meetings, deals, pc,
                   run, notes, i, matched, result, exception, prev_result>>
    /\ UNCHANGED pipeVars

NextMatch == CallMatch

SpecMatch == InitMatch /\ [][NextMatch]_vars

----------------------------------------------------------------------------
(* The report pipeline: src/weekly_report.py and what it calls.  A text is *)
(* a sequence of pieces: single characters, and the literals and formatted *)
(* values of the code kept whole.                                          *)

s_zed_io == <<"z", "e", "d", ".", "i", "o">>
s_kit_io == <<"k", "i", "t", ".", "i", "o">>
s_Kit    == <<"K", "i", "t">>

\* an item of a domain -> name dict that is iterated in file order
Entity(domain, name) == [domain |-> domain, name |-> name]

\* partners.json: the agency partners and the tech partners
AgencyPool == {<<>>, <<Entity(s_zed_io, s_Zed)>>}
TechPool == {<<>>, <<Entity(s_kit_io, s_Kit)>>}

\* the domains mail is searched for
MailDomains == {s_acme_com, s_bolt_io, s_zed_io, s_kit_io}

\* a thread of search_domain_threads and a message of it
Thread(subject, messages) == [subject |-> subject, messages |-> messages]
Message(is_you, timestamp, body) == [is_you |-> is_you, timestamp |-> timestamp, body |-> body]

\* the lines format_thread_for_llm appends for the messages (lines 194-198)
RECURSIVE MessageLines(_)
MessageLines(messages) ==
    IF messages = <<>> THEN <<>>
    ELSE LET msg == Head(messages)
             label == IF msg.is_you THEN "YOU wrote:" ELSE "THEY wrote:"
         IN << <<"--- ", label, " (", msg.timestamp, ") ---">>, msg.body, <<>> >>
            \o MessageLines(Tail(messages))

format_thread_for_llm(thread) ==
    Join(<< <<"Subject: ">> \o thread.subject, <<>> >> \o MessageLines(thread.messages),
         <<"\n">>)

RECURSIVE FormatThreads(_)
FormatThreads(threads) ==
    IF threads = <<>> THEN <<>>
    ELSE <<format_thread_for_llm(Head(threads))>> \o FormatThreads(Tail(threads))

\* get_domain_emails, given the threads the search finds for the domain
get_domain_emails(threads) ==
    IF threads = <<>> THEN <<>>
    ELSE Join(FormatThreads(threads), <<"\n\n=== NEW THREAD ===\n\n">>)

th_hi == Thread(<<"h", "i">>, <<Message(FALSE, "t1", <<"y", "o">>)>>)
th_re == Thread(<<"r", "e">>, <<Message(TRUE, "t2", <<"o", "k">>)>>)

\* The mailboxes the model draws from: which domains have threads.
MailboxPool ==
    {[d \in MailDomains |-> IF d \in S THEN (IF d = s_acme_com THEN <<th_hi, th_re>>
                                              ELSE <<th_hi>>)
                            ELSE <<>>] : S \in SUBSET MailDomains}

\* collect_data, lines 165-172: the emails dict of the deals
DealEmails(ds, box) ==
    [d \in {x \in DOMAIN ds : get_domain_emails(box[x]) # <<>>} |-> get_domain_emails(box[d])]

\* collect_data, lines 176-190: the emails dict of a partner class
PartnerEmails(partners, box) ==
    [d \in {x \in {partners[k].domain : k \in 1..Len(partners)} :
               get_domain_emails(box[x]) # <<>>} |-> get_domain_emails(box[d])]

\* the dict collect_data returns (lines 192-197)
Data(meetings_with_notes, ds, agencies, techs, box) ==
    [meetings_with_notes |-> meetings_with_notes,
     deal_emails |-> DealEmails(ds, box),
     agency_emails |-> PartnerEmails(agencies, box),
     tech_emails |-> PartnerEmails(techs, box)]

\* a note of the agency partner's meeting, holding white space only
f_zed21 == File("f_zed21", TRUE, 21, <<>>, s_Zed, <<>>, TRUE, <<" ", "\n">>)

\* an entry of the match set; the match set is kept in insertion order
Entry(meeting, f) == [meeting |-> meeting, note |-> NoteOf(f)]

\* The match sets the model draws from, each the entries of a dict
\* get_notes_for_meetings returns for meetings of MeetingPool and some
\* content of the Drive folder.
MatchSetPool ==
    {<<>>,
     <<Entry(MeetingPool[1], f_acme20)>>,
     <<Entry(MeetingPool[2], f_bolt20)>>,
     <<Entry(MeetingPool[1], f_acme20), Entry(MeetingPool[2], f_bolt20)>>,
     <<Entry(MeetingPool[1], f_lijo20), Entry(MeetingPool[2], f_lijo20)>>,
     <<Entry(MeetingPool[2], f_lijo20), Entry(MeetingPool[3], f_zed21)>>}

\* str of a date
DateStr(d) == ToString(d)

MeetingHeader(meeting) ==
    <<"=== MEETING: ", DateStr(meeting.date), " - ">> \o meeting.title \o <<" ===">>

EmailHeader == <<"=== EMAIL CORRESPONDENCE ===">>

\* build_context, lines 214-223: the parts of the matched notes
RECURSIVE MeetingParts(_, _)
MeetingParts(entries, dom) ==
    IF entries = <<>> THEN <<>>
    ELSE LET entry == Head(entries)
         IN (IF dom \in entry.meeting.domains
             THEN <<MeetingHeader(entry.meeting), entry.note.content, <<>> >>
             ELSE <<>>)
            \o MeetingParts(Tail(entries), dom)

\* build_context, lines 226-232: None is the empty text, which line 234
\* treats as it treats None
EmailsFor(dom, d) ==
    IF dom \in DOMAIN d.deal_emails THEN d.deal_emails[dom]
    ELSE IF dom \in DOMAIN d.agency_emails THEN d.agency_emails[dom]
    ELSE IF dom \in DOMAIN d.tech_emails THEN d.tech_emails[dom]
    ELSE <<>>

\* build_context appending the correspondence section unconditionally
MutBuildContext(dom, entity_name, d, ds) ==
    LET emails == EmailsFor(dom, d)
        parts == MeetingParts(d.meetings_with_notes, dom) \o <<EmailHeader, emails>>
    IN Join(parts, <<"\n">>)

build_context(dom, entity_name, d, ds) ==
    LET emails == EmailsFor(dom, d)
        parts == MeetingParts(d.meetings_with_notes, dom)
                    \o (IF emails # <<>> THEN <<EmailHeader, emails>> ELSE <<>>)
    IN Join(parts, <<"\n">>)

\* the old variables while the pipeline model runs
ScanIdle ==
    /\ folder_id = "fid"
    /\ token_exists = TRUE
    /\ today = 22
    /\ files = <<>>
    /\ meetings = <<>>
    /\ run = 1
    /\ notes = <<>>
    /\ i = 0
    /\ calls = <<>>
    /\ matched = EmptyDict
    /\ result = EmptyDict
    /\ exception = "none"
    /\ prev_result = EmptyDict

\* the domains of the configured entities
EntityDomains(ds, agencies, techs) ==
    (DOMAIN ds) \cup {agencies[k].domain : k \in 1..Len(agencies)}
                \cup {techs[k].domain : k \in 1..Len(techs)}

\* the name of the entity of domain dom
EntityName(dom, ds, agencies, techs) ==
    IF dom \in DOMAIN ds THEN ds[dom]
    ELSE IF \E k \in 1..Len(agencies) : agencies[k].domain = dom
    THEN agencies[CHOOSE k \in 1..Len(agencies) : agencies[k].domain = dom].name
    ELSE techs[CHOOSE k \in 1..Len(techs) : techs[k].domain = dom].name

\* build_context called on its own, for an entity of the configuration and
\* a dict collect_data can return
InitContext ==
    /\ ScanIdle
    /\ deals \in DealsPool
    /\ pc = "context"
    /\ agency_partners \in AgencyPool
    /\ tech_partners \in TechPool
    /\ mailbox \in MailboxPool
    /\ entity_domain \in EntityDomains(deals, agency_partners, tech_partners)
    /\ \E ms \in MatchSetPool :
          data = Data(ms, deals, agency_partners, tech_partners, mailbox)
    /\ context = <<>>
    /\ MainIdle

BuildContext ==
    /\ pc = "context"
    /\ context' = build_context(entity_domain,
                                EntityName(entity_domain, deals, agency_partners,
                                           tech_partners),
                                data, deals)
    /\ pc' = "built"
    /\ UNCHANGED <<folder_id, token_exists, today, files, meetings, deals, run,
                   notes, i, calls, matched, result, exception, prev_result>>
    /\ UNCHANGED <<agency_partners, tech_partners, mailbox, entity_domain, data>>
    /\ UNCHANGED <<mainVars, reportVars>>

NextContext == BuildContext

SpecContext == InitContext /\ [][NextContext]_vars

----------------------------------------------------------------------------
(* get_notes_for_meetings as collect_data calls it (weekly_report.py lines *)
(* 154-161) when partners are configured: the meetings are all the         *)
(* meetings fetch_meetings returned, those with partners included, and the *)
(* deals argument is the deals mapping.                                    *)

s_Zedd == <<"Z", "e", "d", "d">>
s_kay == <<"k", "a", "y", "@", "k", "i", "t", ".", "i", "o">>

\* a note of day 21 whose company is close to the name of the agency
\* partner and is not in the title of the partner's meeting
f_zedd21 == File("f_zedd21", TRUE, 21, <<>>, s_Zedd, <<>>, TRUE, <<"n", "8">>)

PartnerFilePool == {f_zedd21, f_zed21, f_lijo20, f_acme20}

\* a meeting with the agency partner, and one with both partners
PartnerMeetingPool ==
    <<MeetingPool[1], MeetingPool[3], Meeting("e4", 21, t_Intro, <<s_kim, s_kay>>)>>

InitPartners ==
    /\ folder_id = "fid"
    /\ token_exists = TRUE
    /\ today = 22
    /\ files \in SeqsUpTo(PartnerFilePool, MaxNotes)
    /\ meetings \in SubSeqsUpTo(PartnerMeetingPool, MaxMeetings)
    /\ deals \in DealsPool
    /\ pc = "start"
    /\ run = 1
    /\ notes = <<>>
    /\ i = 0
    /\ calls = <<>>
    /\ matched = EmptyDict
    /\ result = EmptyDict
    /\ exception = "none"
    /\ prev_result = EmptyDict
    /\ agency_partners = <<Entity(s_zed_io, s_Zed)>>
    /\ tech_partners \in TechPool
    /\ mailbox = EmptyDict
    /\ entity_domain = <<>>
    /\ data = EmptyDict
    /\ context = <<>>
    /\ MainIdle

SpecPartners == InitPartners /\ [][Next]_vars

----------------------------------------------------------------------------
(* synthesize: src/src/ollama_client.py.                                   *)

WhiteSpace == {" ", "\n", "\t"}

\* str.strip()
RECURSIVE LStrip(_)
LStrip(text) ==
    IF text # <<>> /\ Head(text) \in WhiteSpace THEN LStrip(Tail(text)) ELSE text

RECURSIVE RStrip(_)
RStrip(text) ==
    IF text # <<>> /\ text[Len(text)] \in WhiteSpace
    THEN RStrip(SubSeq(text, 1, Len(text) - 1))
    ELSE text

Strip(text) == RStrip(LStrip(text))

\* str.startswith
StartsWith(text, prefix) ==
    Len(prefix) <= Len(text) /\ SubSeq(text, 1, Len(prefix)) = prefix

ErrorPrefix == <<"E", "r", "r", "o", "r", ":">>

\* An outcome of requests.post(endpoint, ...): a timeout, a connection
\* error, or a response with a status and a body.  The body is not JSON
\* ("invalid"), a JSON array ("array"), a JSON object without the key
\* "response" ("no_key"), with "response": null ("null"), or with a text.
Reply(kind, status, body, text) ==
    [kind |-> kind, status |-> status, body |-> body, text |-> text]

ReplyPool ==
    {Reply("timeout", 0, "", <<>>),
     Reply("connection_error", 0, "", <<>>),
     Reply("http", 500, "text", <<"n", "o">>),
     Reply("http", 200, "invalid", <<>>),
     Reply("http", 200, "array", <<>>),
     Reply("http", 200, "no_key", <<>>),
     Reply("http", 200, "null", <<>>),
     Reply("http", 200, "text", <<" ", "o", "k", "\n">>),
     Reply("http", 200, "text", <<>>),
     Reply("http", 200, "text", ErrorPrefix \o <<" ", "n", "o">>)}

\* what a call gives its caller: a returned string, or an exception
Returned(text) == [summary |-> text, exception |-> "none"]
Raised(name) == [summary |-> <<>>, exception |-> name]

\* synthesize (lines 98-149), given the outcome r of its request.  A body
\* that is not JSON makes response.json() raise an exception that is a
\* RequestException in requests >= 2.27 and a plain ValueError before; the
\* repository pins no version.
synthesize(ctx, entity_name, entity_type, r, json_error_is_request_exception) ==
    IF r.kind = "timeout"
    THEN Returned(ErrorPrefix \o <<" Ollama request timed out">>)
    ELSE IF r.kind = "connection_error"
    THEN Returned(ErrorPrefix \o <<" Could not connect to Ollama - ", "e">>)
    ELSE IF r.status # 200
    THEN Returned(ErrorPrefix \o <<" Ollama returned status ", ToString(r.status)>>)
    ELSE IF r.body = "invalid"
    THEN IF json_error_is_request_exception
         THEN Returned(ErrorPrefix \o <<" Could not connect to Ollama - ", "e">>)
         ELSE Raised("JSONDecodeError")
    ELSE IF r.body = "array" THEN Raised("AttributeError")
    ELSE IF r.body = "no_key" THEN Returned(Strip(<<>>))
    ELSE IF r.body = "null" THEN Raised("AttributeError")
    ELSE Returned(Strip(r.text))

\* the entity_type argument of each class
EntityTypes == {"deal", "agency_partner", "tech_partner"}

\* synthesize called on its own, on a context build_context returns
InitSynth ==
    /\ ScanIdle
    /\ deals \in DealsPool
    /\ pc = "synth_call"
    /\ agency_partners \in AgencyPool
    /\ tech_partners \in TechPool
    /\ mailbox \in {[d \in MailDomains |-> <<>>], [d \in MailDomains |-> <<th_hi>>]}
    /\ entity_domain \in EntityDomains(deals, agency_partners, tech_partners)
    /\ \E ms \in MatchSetPool :
          /\ data = Data(ms, deals, agency_partners, tech_partners, mailbox)
          /\ context = build_context(entity_domain, <<>>, data, deals)
    /\ MainIdle

CallSynthesize ==
    /\ pc = "synth_call"
    /\ \E r \in ReplyPool : \E t \in EntityTypes : \E modern \in BOOLEAN :
          LET out == synthesize(context,
                                EntityName(entity_domain, deals, agency_partners,
                                           tech_partners), t, r, modern)
          IN /\ reply' = r
             /\ summary' = out.summary
             /\ exception' = out.exception
    /\ pc' = "synth_done"
    /\ UNCHANGED <<folder_id, token_exists, today, files, meetings, deals, run,
                   notes, i, calls, matched, result, prev_result>>
    /\ UNCHANGED <<agency_partners, tech_partners, mailbox, entity_domain, data, context>>
    /\ UNCHANGED reportVars
    /\ UNCHANGED <<args, ollama, setup_ok, we_started_ollama, todo, deal_updates,
                   agency_updates, tech_updates, events, exit_code>>

NextSynth == CallSynthesize

SpecSynth == InitSynth /\ [][NextSynth]_vars

----------------------------------------------------------------------------
(* main, collect_data and synthesize_updates: src/weekly_report.py.        *)

\* the parsed command line (lines 336-341)
Args(skip_interview, markdown_only, no_commit, dry_run) ==
    [skip_interview |-> skip_interview, markdown_only |-> markdown_only,
     no_commit |-> no_commit, dry_run |-> dry_run]

ArgsPool ==
    {Args(FALSE, FALSE, FALSE, FALSE), Args(TRUE, FALSE, FALSE, FALSE),
     Args(TRUE, TRUE, FALSE, FALSE), Args(TRUE, FALSE, TRUE, FALSE),
     Args(TRUE, FALSE, FALSE, TRUE)}

\* What start_ollama finds: a server answering ("running"), none but one
\* that `ollama serve` brings up ("startable"), one that does not answer
\* within the 30 polls ("unready"), or no ollama executable ("missing").
OllamaStates == {"running", "startable", "unready", "missing"}

\* active_deals.json as get_deals_dict loads it
MainDealsPool == DealsPool \cup {EmptyDict}

MainMatchSets ==
    {<<>>,
     <<Entry(MeetingPool[1], f_acme20), Entry(MeetingPool[2], f_bolt20)>>,
     <<Entry(MeetingPool[2], f_lijo20), Entry(MeetingPool[3], f_zed21)>>}

MainMailboxes ==
    {[d \in MailDomains |-> <<>>],
     [d \in MailDomains |-> IF d \in {s_acme_com, s_zed_io} THEN <<th_hi>> ELSE <<>>]}

MainReplies ==
    {Reply("timeout", 0, "", <<>>),
     Reply("http", 200, "null", <<>>),
     Reply("http", 200, "text", <<" ", "o", "k", "\n">>)}

\* a call main makes, or a line it logs: the operation, the entity's domain
\* if it concerns one, and the text or the arguments passed
Ev(op, entity, text) == [op |-> op, entity |-> entity, text |-> text]

\* an entity in its turn of the loops of collect_data and synthesize_updates
Item(class, domain, name) == [class |-> class, domain |-> domain, name |-> name]

RECURSIVE DealItems(_, _)
DealItems(order, ds) ==
    IF order = <<>> THEN <<>>
    ELSE <<Item("deal", Head(order), ds[Head(order)])>> \o DealItems(Tail(order), ds)

RECURSIVE PartnerItems(_, _)
PartnerItems(class, partners) ==
    IF partners = <<>> THEN <<>>
    ELSE <<Item(class, Head(partners).domain, Head(partners).name)>>
         \o PartnerItems(class, Tail(partners))

\* the entities in the order both functions iterate them: the deals in file
\* order, then the agency partners, then the tech partners
Items(order, ds, agencies, techs) ==
    DealItems(order, ds) \o PartnerItems("agency_partner", agencies)
                         \o PartnerItems("tech_partner", techs)

RECURSIVE FetchEvents(_)
FetchEvents(items) ==
    IF items = <<>> THEN <<>>
    ELSE <<Ev("get_domain_emails", Head(items).domain, <<>>)>> \o FetchEvents(Tail(items))

\* collect_data with the mail fetched before the calendar
MutCollectEvents(items, matching) ==
    FetchEvents(items)
       \o <<Ev("fetch_meetings", <<>>, <<>>), Ev("scan_drive_notes", <<>>, <<>>)>>
       \o (IF matching THEN <<Ev("match_meeting_to_note", <<>>, <<>>)>> ELSE <<>>)

\* the calls of collect_data, in order (lines 155-190); matching tells
\* whether the scan found notes, so that get_notes_for_meetings went on to match
CollectEvents(items, matching) ==
    <<Ev("fetch_meetings", <<>>, <<>>), Ev("scan_drive_notes", <<>>, <<>>)>>
       \o (IF matching THEN <<Ev("match_meeting_to_note", <<>>, <<>>)>> ELSE <<>>)
       \o FetchEvents(items)

\* dict[name] = text on a dict kept in insertion order
UpdatePut(updates, name, text) ==
    IF \E k \in 1..Len(updates) : updates[k].name = name
    THEN [k \in 1..Len(updates) |->
             IF updates[k].name = name THEN [name |-> name, text |-> text] ELSE updates[k]]
    ELSE Append(updates, [name |-> name, text |-> text])

\* synthesize_updates calling synthesize whatever the context
MutShouldSynthesize(ctx) == TRUE

\* lines 263, 275, 285: context.strip() is truthy
ShouldSynthesize(ctx) == Strip(ctx) # <<>>

\* the arguments both publishers are called with (lines 432-456)
ReportArgs == <<deal_updates, agency_updates, tech_updates, DateStr(today)>>

InitMain ==
    /\ folder_id = "fid"
    /\ token_exists \in BOOLEAN
    /\ today = 22
    /\ files = <<>>
    /\ meetings = <<>>
    /\ deals \in MainDealsPool
    /\ pc = "main"
    /\ run = 1
    /\ notes = <<>>
    /\ i = 0
    /\ calls = <<>>
    /\ matched = EmptyDict
    /\ result = EmptyDict
    /\ exception = "none"
    /\ prev_result = EmptyDict
    /\ agency_partners \in AgencyPool
    /\ tech_partners \in TechPool
    /\ mailbox \in MainMailboxes
    /\ entity_domain = <<>>
    /\ data = EmptyDict
    /\ context = <<>>
    /\ args \in ArgsPool
    /\ ollama \in OllamaStates
    /\ setup_ok \in BOOLEAN
    /\ we_started_ollama = FALSE
    /\ todo = <<>>
    /\ reply = EmptyDict
    /\ summary = <<>>
    /\ deal_updates = <<>>
    /\ agency_updates = <<>>
    /\ tech_updates = <<>>
    /\ events = <<>>
    /\ exit_code = -1
    /\ ReportIdle

\* the variables main never writes
mainFixed == <<folder_id, token_exists, today, files, meetings, run, notes, i,
               calls, matched, result, prev_result, agency_partners, tech_partners,
               mailbox, args, setup_ok, reportVars>>

\* lines 349-351 with start_ollama (lines 41-77)
StartOllama ==
    /\ pc = "main"
    /\ IF ollama = "running"
       THEN /\ events' = Append(events, Ev("start_ollama", <<>>, <<>>))
            /\ UNCHANGED <<ollama, we_started_ollama, exception, exit_code>>
            /\ pc' = "check"
       ELSE IF ollama = "startable"
       THEN /\ events' = events \o <<Ev("start_ollama", <<>>, <<>>),
                                     Ev("ollama_serve", <<>>, <<>>)>>
            /\ ollama' = "started"
            /\ we_started_ollama' = TRUE
            /\ UNCHANGED <<exception, exit_code>>
            /\ pc' = "check"
       ELSE IF ollama = "unready"
       THEN /\ events' = events \o <<Ev("start_ollama", <<>>, <<>>),
                                     Ev("ollama_serve", <<>>, <<>>)>>
            /\ exit_code' = 1
            /\ UNCHANGED <<ollama, we_started_ollama, exception>>
            /\ pc' = "exited"
       ELSE /\ events' = Append(events, Ev("start_ollama", <<>>, <<>>))
            /\ exception' = "FileNotFoundError"
            /\ exit_code' = 1
            /\ UNCHANGED <<ollama, we_started_ollama>>
            /\ pc' = "exited"
    /\ UNCHANGED mainFixed
    /\ UNCHANGED <<deals, entity_domain, data, context, todo, reply, summary,
                   deal_updates, agency_updates, tech_updates>>

\* check_prerequisites looking at token.json only
MutCheckPrerequisitesResult == token_exists

\* what check_prerequisites returns (lines 116-135)
CheckPrerequisitesResult == token_exists /\ setup_ok

\* lines 355-356 with the call of check_prerequisites
CheckPrerequisites ==
    /\ pc = "check"
    /\ events' = Append(events, Ev("check_prerequisites", <<>>, <<>>))
    /\ IF CheckPrerequisitesResult
       THEN /\ pc' = IF args.dry_run THEN "dry_run" ELSE "interview"
            /\ UNCHANGED exit_code
       ELSE /\ exit_code' = 1
            /\ pc' = "finally"
    /\ UNCHANGED mainFixed
    /\ UNCHANGED <<deals, entity_domain, data, context, ollama, we_started_ollama,
                   exception, todo, reply, summary, deal_updates, agency_updates,
                   tech_updates>>

\* lines 359-394: line 365 imports scan_local_notes, which granola_scanner
\* does not define, so the import raises ImportError
DryRun ==
    /\ pc = "dry_run"
    /\ events' = Append(events, Ev("dry_run", <<>>, <<>>))
    /\ exception' = "ImportError"
    /\ exit_code' = 1
    /\ pc' = "finally"
    /\ UNCHANGED mainFixed
    /\ UNCHANGED <<deals, entity_domain, data, context, ollama, we_started_ollama,
                   todo, reply, summary, deal_updates, agency_updates, tech_updates>>

\* lines 397-400: the interview, after which active_deals.json is what the
\* user's answers made it
Interview ==
    /\ pc = "interview"
    /\ IF args.skip_interview
       THEN UNCHANGED <<events, deals>>
       ELSE /\ events' = Append(events, Ev("run_interview", <<>>, <<>>))
            /\ deals' \in MainDealsPool
    /\ pc' = "load"
    /\ UNCHANGED mainFixed
    /\ UNCHANGED <<entity_domain, data, context, ollama, we_started_ollama, exception,
                   todo, reply, summary, deal_updates, agency_updates, tech_updates,
                   exit_code>>

\* lines 403-410: the configuration is loaded; the order of the deals is
\* that of active_deals.json
LoadConfig ==
    /\ pc = "load"
    /\ IF deals = EmptyDict /\ agency_partners = <<>> /\ tech_partners = <<>>
       THEN /\ exit_code' = 0
            /\ pc' = "finally"
            /\ UNCHANGED todo
       ELSE /\ \E order \in Orders(DOMAIN deals) :
                  todo' = Items(order, deals, agency_partners, tech_partners)
            /\ pc' = "collect"
            /\ UNCHANGED exit_code
    /\ UNCHANGED mainFixed
    /\ UNCHANGED <<deals, entity_domain, data, context, ollama, we_started_ollama,
                   exception, reply, summary, deal_updates, agency_updates,
                   tech_updates, events>>

\* line 413 with collect_data (lines 138-197): the calendar fetch raises, or
\* the calls are made in order and the dict is returned
CollectData ==
    /\ pc = "collect"
    /\ \/ /\ events' = Append(events, Ev("fetch_meetings", <<>>, <<>>))
          /\ exception' = "HttpError"
          /\ exit_code' = 1
          /\ pc' = "finally"
          /\ UNCHANGED data
       \/ /\ \E ms \in MainMatchSets : \E matching \in BOOLEAN :
                /\ ms # <<>> => matching
                /\ events' = events \o CollectEvents(todo, matching)
                /\ data' = Data(ms, deals, agency_partners, tech_partners, mailbox)
          /\ pc' = "synth"
          /\ UNCHANGED <<exception, exit_code>>
    /\ UNCHANGED mainFixed
    /\ UNCHANGED <<deals, entity_domain, context, ollama, we_started_ollama, todo,
                   reply, summary, deal_updates, agency_updates, tech_updates>>

\* one iteration of a loop of synthesize_updates (lines 261-289)
SynthesizeEntity ==
    /\ pc = "synth"
    /\ todo # <<>>
    /\ LET e == Head(todo)
           ctx == build_context(e.domain, e.name, data, deals)
           built == Ev("build_context", e.domain, ctx)
       IN /\ entity_domain' = e.domain
          /\ context' = ctx
          /\ IF ~ShouldSynthesize(ctx)
             THEN /\ events' = Append(events, built)
                  /\ todo' = Tail(todo)
                  /\ UNCHANGED <<reply, summary, exception, exit_code, pc,
                                 deal_updates, agency_updates, tech_updates>>
             ELSE \E r \in MainReplies : \E modern \in BOOLEAN :
                     LET out == synthesize(ctx, e.name, e.class, r, modern)
                         called == Ev("synthesize", e.domain, ctx)
                         failed == StartsWith(out.summary, ErrorPrefix)
                     IN /\ reply' = r
                        /\ summary' = out.summary
                        /\ exception' = out.exception
                        /\ IF out.exception # "none"
                           THEN /\ events' = events \o <<built, called>>
                                /\ exit_code' = 1
                                /\ pc' = "finally"
                                /\ UNCHANGED <<todo, deal_updates, agency_updates,
                                               tech_updates>>
                           ELSE /\ events' =
                                     events \o <<built, called>>
                                        \o (IF failed /\ e.class = "deal"
                                            THEN <<Ev("warning", e.domain, out.summary)>>
                                            ELSE <<>>)
                                /\ deal_updates' =
                                     IF ~failed /\ e.class = "deal"
                                     THEN UpdatePut(deal_updates, e.name, out.summary)
                                     ELSE deal_updates
                                /\ agency_updates' =
                                     IF ~failed /\ e.class = "agency_partner"
                                     THEN UpdatePut(agency_updates, e.name, out.summary)
                                     ELSE agency_updates
                                /\ tech_updates' =
                                     IF ~failed /\ e.class = "tech_partner"
                                     THEN UpdatePut(tech_updates, e.name, out.summary)
                                     ELSE tech_updates
                                /\ todo' = Tail(todo)
                                /\ UNCHANGED <<exit_code, pc>>
    /\ UNCHANGED mainFixed
    /\ UNCHANGED <<deals, data, ollama, we_started_ollama>>

\* the fallback publisher called with no updates
MutFallbackArgs == <<<<>>, <<>>, <<>>, DateStr(today)>>

\* the arguments of the fallback call (lines 451-456)
FallbackArgs == ReportArgs

\* lines 420-457: the count of updates, then the report by the Markdown
\* publisher, or by the Google Doc publisher with the Markdown one as fallback
Report ==
    /\ pc = "synth"
    /\ todo = <<>>
    /\ IF Len(deal_updates) + Len(agency_updates) + Len(tech_updates) = 0
       THEN /\ exit_code' = 0
            /\ pc' = "finally"
            /\ UNCHANGED <<events, exception>>
       ELSE IF args.markdown_only
       THEN \E ok \in BOOLEAN :
               /\ events' = Append(events, Ev("generate_markdown_report", <<>>, ReportArgs))
               /\ exception' = IF ok THEN exception ELSE "OSError"
               /\ exit_code' = IF ok THEN exit_code ELSE 1
               /\ pc' = IF ok THEN "commit" ELSE "finally"
       ELSE \E ok \in BOOLEAN : \E fallback_ok \in BOOLEAN :
               IF ok
               THEN /\ events' = Append(events, Ev("generate_report", <<>>, ReportArgs))
                    /\ pc' = "commit"
                    /\ UNCHANGED <<exception, exit_code>>
               ELSE /\ events' = events \o
                          <<Ev("generate_report", <<>>, ReportArgs),
                            Ev("generate_report_failed", <<>>, <<>>),
                            Ev("generate_markdown_report", <<>>, FallbackArgs)>>
                    /\ exception' = IF fallback_ok THEN exception ELSE "OSError"
                    /\ exit_code' = IF fallback_ok THEN exit_code ELSE 1
                    /\ pc' = IF fallback_ok THEN "commit" ELSE "finally"
    /\ UNCHANGED mainFixed
    /\ UNCHANGED <<deals, entity_domain, data, context, ollama, we_started_ollama,
                   todo, reply, summary, deal_updates, agency_updates, tech_updates>>

\* the commit made whatever the flag
MutShouldCommit == TRUE

\* line 460: if not args.no_commit
ShouldCommit == ~args.no_commit

\* lines 460-466
GitCommit ==
    /\ pc = "commit"
    /\ events' = IF ShouldCommit THEN Append(events, Ev("git_commit", <<>>, <<>>))
                 ELSE events
    /\ exit_code' = 0
    /\ pc' = "finally"
    /\ UNCHANGED mainFixed
    /\ UNCHANGED <<deals, entity_domain, data, context, ollama, we_started_ollama,
                   exception, todo, reply, summary, deal_updates, agency_updates,
                   tech_updates>>

\* lines 468-473
Finally ==
    /\ pc = "finally"
    /\ IF we_started_ollama
       THEN /\ events' = Append(events, Ev("stop_ollama", <<>>, <<>>))
            /\ ollama' = "stopped"
       ELSE UNCHANGED <<events, ollama>>
    /\ pc' = "exited"
    /\ UNCHANGED mainFixed
    /\ UNCHANGED <<deals, entity_domain, data, context, we_started_ollama, exception,
                   todo, reply, summary, deal_updates, agency_updates, tech_updates,
                   exit_code>>

NextMain ==
    \/ StartOllama
    \/ CheckPrerequisites
    \/ DryRun
    \/ Interview
    \/ LoadConfig
    \/ CollectData
    \/ SynthesizeEntity
    \/ Report
    \/ GitCommit
    \/ Finally

SpecMain == InitMain /\ [][NextMain]_vars

----------------------------------------------------------------------------
(* clean_content and parse_content_sections: src/src/report_generator.py.  *)

\* text.split("\n")
RECURSIVE SplitLinesAcc(_, _, _)
SplitLinesAcc(text, cur, acc) ==
    IF text = <<>> THEN Append(acc, cur)
    ELSE IF Head(text) = "\n" THEN SplitLinesAcc(Tail(text), <<>>, Append(acc, cur))
    ELSE SplitLinesAcc(Tail(text), Append(cur, Head(text)), acc)

SplitLines(text) == SplitLinesAcc(text, <<>>, <<>>)

\* the characters a leading-bullet removal takes (line 59); "U+2022" is
\* the bullet character
Bullets == {"-", "*", "U+2022"}

\* re.sub of ^[-*U+2022]\s* by "" (line 59)
RemoveBullet(line) ==
    IF line # <<>> /\ Head(line) \in Bullets THEN LStrip(Tail(line)) ELSE line

RECURSIVE DropHashes(_)
DropHashes(line) ==
    IF line # <<>> /\ Head(line) = "#" THEN DropHashes(Tail(line)) ELSE line

\* re.sub(r"^#+\s*", "", line)
RemoveHeading(line) ==
    IF line # <<>> /\ Head(line) = "#" THEN LStrip(DropHashes(line)) ELSE line

\* the length of the run of characters other than "*" that line starts with
RECURSIVE PlainRun(_)
PlainRun(line) ==
    IF line = <<>> \/ Head(line) = "*" THEN 0 ELSE 1 + PlainRun(Tail(line))

\* line starts with n asterisks
Stars(line, n) == Len(line) >= n /\ \A k \in 1..n : line[k] = "*"

\* re.sub of n asterisks, ([^*]+), n asterisks by the group (lines 65-66):
\* the matches are taken left to right and do not overlap
RECURSIVE RemoveEmphasis(_, _)
RemoveEmphasis(line, n) ==
    IF line = <<>> THEN <<>>
    ELSE LET inner == SubSeq(line, n + 1, Len(line))
             plain == PlainRun(inner)
             after == SubSeq(inner, plain + 1, Len(inner))
         IN IF Stars(line, n) /\ plain >= 1 /\ Stars(after, n)
            THEN SubSeq(inner, 1, plain)
                    \o RemoveEmphasis(SubSeq(after, n + 1, Len(after)), n)
            ELSE <<Head(line)>> \o RemoveEmphasis(Tail(line), n)

\* re.sub(r"\s+", " ", line)
RECURSIVE CollapseSpaces(_)
CollapseSpaces(line) ==
    IF line = <<>> THEN <<>>
    ELSE IF Head(line) \in WhiteSpace
    THEN <<" ">> \o CollapseSpaces(LStrip(line))
    ELSE <<Head(line)>> \o CollapseSpaces(Tail(line))

\* the loop body of clean_content for one line (lines 52-69); an empty
\* result stands for a line that is skipped
CleanLine(line) ==
    LET stripped == Strip(line)
    IN IF stripped = <<>> THEN <<>>
       ELSE Strip(CollapseSpaces(
                RemoveEmphasis(RemoveEmphasis(RemoveHeading(RemoveBullet(stripped)),
                                              2), 1)))

RECURSIVE CleanLines(_)
CleanLines(lines) ==
    IF lines = <<>> THEN <<>>
    ELSE (IF CleanLine(Head(lines)) = <<>> THEN <<>> ELSE <<CleanLine(Head(lines))>>)
         \o CleanLines(Tail(lines))

clean_content(text) == Join(CleanLines(SplitLines(text)), <<"\n">>)

\* the known section labels, in the order of the alternation (lines 92-96)
labels ==
    <<<<"A", "c", "t", "i", "v", "i", "t", "y">>,
      <<"D", "e", "a", "l", " ", "S", "t", "a", "t", "u", "s">>,
      <<"S", "t", "a", "t", "u", "s">>,
      <<"R", "i", "s", "k", "s">>,
      <<"R", "i", "s", "k">>,
      <<"A", "c", "t", "i", "o", "n", " ", "I", "t", "e", "m", "s">>,
      <<"A", "c", "t", "i", "o", "n", " ", "I", "t", "e", "m">>,
      <<"N", "e", "x", "t", " ", "S", "t", "e", "p", "s">>,
      <<"S", "u", "m", "m", "a", "r", "y">>,
      <<"N", "o", "t", "e", "s">>,
      <<"K", "e", "y", " ", "P", "o", "i", "n", "t", "s">>,
      <<"C", "o", "n", "c", "e", "r", "n", "s">>,
      <<"B", "l", "o", "c", "k", "e", "r", "s">>>>

\* the characters that end a label marker (line 100)
MarkerChars == {":", "-"}

\* the end of the match of the pattern (label)\s*[:\-]\s* that starts at
\* position p of text with label lbl, 0 if there is none; the match ends
\* before position end
MarkerEnd(text, p, lbl) ==
    LET q == p + Len(lbl)
        rest == SubSeq(text, q, Len(text))
        afterSpace == LStrip(rest)
    IN IF /\ q - 1 <= Len(text)
          /\ Lower(SubSeq(text, p, q - 1)) = Lower(lbl)
          /\ afterSpace # <<>>
          /\ Head(afterSpace) \in MarkerChars
       THEN Len(text) - Len(LStrip(Tail(afterSpace))) + 1
       ELSE 0

\* the first label of the alternation that matches at position p, 0 if none
FirstLabelAt(text, p) ==
    IF \E k \in 1..Len(labels) : MarkerEnd(text, p, labels[k]) > 0
    THEN CHOOSE k \in 1..Len(labels) :
            /\ MarkerEnd(text, p, labels[k]) > 0
            /\ \A j \in 1..(k - 1) : MarkerEnd(text, p, labels[j]) = 0
    ELSE 0

\* re.finditer(pattern, text, re.IGNORECASE) from position p on: the
\* matches as [label, start, end], start inclusive and end exclusive
RECURSIVE FindIter(_, _)
FindIter(text, p) ==
    IF p > Len(text) THEN <<>>
    ELSE LET k == FirstLabelAt(text, p)
         IN IF k = 0 THEN FindIter(text, p + 1)
            ELSE LET e == MarkerEnd(text, p, labels[k])
                 IN <<[label |-> SubSeq(text, p, p + Len(labels[k]) - 1),
                       start |-> p, end |-> e]>> \o FindIter(text, e)

Field(label, content) == [label |-> label, content |-> content]

\* the sections appended for the matches ms (lines 106-120): the content of
\* a match runs to the start of the next match, or to the end of the text
RECURSIVE LabeledSections(_, _)
LabeledSections(text, ms) ==
    IF ms = <<>> THEN <<>>
    ELSE LET stop == IF Len(ms) > 1 THEN ms[2].start - 1 ELSE Len(text)
             content == Strip(SubSeq(text, ms[1].end, stop))
         IN (IF content # <<>> THEN <<Field(ms[1].label, content)>> ELSE <<>>)
            \o LabeledSections(text, Tail(ms))

s_Summary == <<"S", "u", "m", "m", "a", "r", "y">>

parse_content_sections(text) ==
    LET cleaned == clean_content(text)
        sections == LabeledSections(cleaned, FindIter(cleaned, 1))
    IN IF sections = <<>> /\ Strip(cleaned) # <<>>
       THEN <<Field(s_Summary, Strip(cleaned))>>
       ELSE sections

\* what precedes the first word of a summary: emphasis, a bullet, a heading,
\* a word
ParsePrefixes ==
    {<<>>,
     <<"*", "*">>,
     <<"*">>,
     <<"-", " ">>,
     <<"#", "#", " ">>,
     <<"p", "r", "e", " ">>}

\* the first word: a label, a word that contains the label "Risk", a word
\* that is no label
ParseWords ==
    {<<"A", "c", "t", "i", "v", "i", "t", "y">>,
     <<"R", "i", "s", "k", "s">>,
     <<"A", "s", "t", "e", "r", "i", "s", "k">>,
     <<"h", "e", "l", "l", "o">>}

\* what follows the first word
ParseMarkers ==
    {<<>>,
     <<":">>,
     <<":", "*", "*">>,
     <<" ", "-", " ">>}

\* the rest of the first line
ParseBodies ==
    {<<>>,
     <<" ", "S", "h", "i", "p", "p", "e", "d", " ", "v", "2">>}

\* the second line
ParseSecondLines ==
    {<<>>,
     <<"\n", "R", "i", "s", "k", "s", ":", " ", "n", "o", "n", "e">>,
     <<"\n", "R", "i", "s", "k", ":">>}

\* the summaries parse_content_sections is called on
ParseTexts ==
    {a \o w \o m \o b \o l :
        a \in ParsePrefixes, w \in ParseWords, m \in ParseMarkers,
        b \in ParseBodies, l \in ParseSecondLines}

\* parse_content_sections called on its own
InitParse ==
    /\ ScanIdle
    /\ deals = EmptyDict
    /\ pc = "parse"
    /\ agency_partners = <<>>
    /\ tech_partners = <<>>
    /\ mailbox = EmptyDict
    /\ entity_domain = <<>>
    /\ data = EmptyDict
    /\ context = <<>>
    /\ args = EmptyDict
    /\ ollama = "running"
    /\ setup_ok = TRUE
    /\ we_started_ollama = FALSE
    /\ todo = <<>>
    /\ reply = EmptyDict
    /\ summary = <<>>
    /\ deal_updates = <<>>
    /\ agency_updates = <<>>
    /\ tech_updates = <<>>
    /\ events = <<>>
    /\ exit_code = -1
    /\ raw_text \in ParseTexts
    /\ parse_result = <<>>
    /\ output_folder_id = <<>>
    /\ report_date = <<>>
    /\ docs = <<>>
    /\ requests = <<>>
    /\ report_lines = <<>>
    /\ calendar = <<>>
    /\ active_deals = <<>>
    /\ loaded_deals = <<>>
    /\ response = <<>>

ParseContentSections ==
    /\ pc = "parse"
    /\ parse_result' = parse_content_sections(raw_text)
    /\ pc' = "parsed"
    /\ UNCHANGED <<folder_id, token_exists, today, files, meetings, deals, run,
                   notes, i, calls, matched, result, exception, prev_result>>
    /\ UNCHANGED <<agency_partners, tech_partners, mailbox, entity_domain, data,
                   context>>
    /\ UNCHANGED <<mainVars, raw_text, output_folder_id, report_date, docs, requests,
                   report_lines, calendar, active_deals, loaded_deals, response>>

NextParse == ParseContentSections

SpecParse == InitParse /\ [][NextParse]_vars

----------------------------------------------------------------------------
(* build_document_requests, create_google_doc, generate_report and         *)
(* generate_markdown_report: src/src/report_generator.py.  An updates dict *)
(* is the sequence of its [name, text] items, in insertion order.          *)

s_Weekly_Report == <<"W", "e", "e", "k", "l", "y", " ", "R", "e", "p", "o", "r", "t", " ", "-", " ">>
s_Deal_Updates == <<"D", "e", "a", "l", " ", "U", "p", "d", "a", "t", "e", "s">>
s_Agency_Partner_Updates == <<"A", "g", "e", "n", "c", "y", " ", "P", "a", "r", "t", "n", "e", "r", " ", "U", "p", "d", "a", "t", "e", "s">>
s_Tech_Alliances == <<"T", "e", "c", "h", " ", "A", "l", "l", "i", "a", "n", "c", "e", "s">>

\* one request of the batch: an insertText at index start, an
\* updateParagraphStyle of [start, end) to the named style, or an
\* updateTextStyle of [start, end) to bold
Request(kind, start, end, text, style) ==
    [kind |-> kind, start |-> start, end |-> end, text |-> text, style |-> style]

\* requests = [], current_index = 1, bold_ranges = [] (lines 187-189)
NewBuild == [requests |-> <<>>, current_index |-> 1, bold_ranges |-> <<>>]

\* add_text (lines 191-234) on the nonlocals st
add_text(st, text, style, bold) ==
    LET start_index == st.current_index
        end_index == st.current_index + Len(text)
        text_end == IF text # <<>> /\ text[Len(text)] = "\n" THEN end_index - 1
                    ELSE end_index
    IN [requests |->
            st.requests
            \o <<Request("insertText", start_index, start_index, text, "")>>
            \o (IF style \in {"HEADING_1", "HEADING_2"}
                THEN <<Request("updateParagraphStyle", start_index, end_index, <<>>,
                               style)>>
                ELSE <<>>),
        current_index |-> end_index,
        bold_ranges |-> IF bold THEN Append(st.bold_ranges, <<start_index, text_end>>)
                        ELSE st.bold_ranges]

\* the loop of add_entity_content over the parsed sections (lines 244-248)
RECURSIVE AddFields(_, _)
AddFields(st, sections) ==
    IF sections = <<>> THEN st
    ELSE AddFields(add_text(add_text(st, Head(sections).label \o <<":", " ">>, "", TRUE),
                            Head(sections).content \o <<"\n", "\n">>, "", FALSE),
                   Tail(sections))

\* add_entity_content (lines 236-248)
add_entity_content(st, entity_name, content) ==
    AddFields(add_text(st, entity_name \o <<"\n">>, "HEADING_2", FALSE),
              parse_content_sections(content))

\* the loop of add_section over updates.items() (lines 259-260)
RECURSIVE AddEntities(_, _)
AddEntities(st, updates) ==
    IF updates = <<>> THEN st
    ELSE AddEntities(add_entity_content(st, Head(updates).name, Head(updates).text),
                     Tail(updates))

\* add_section without the test of line 252
MutAddSection(st, title, updates) ==
    AddEntities(add_text(st, title \o <<"\n">>, "HEADING_1", FALSE), updates)

\* add_section (lines 250-260)
add_section(st, title, updates) ==
    IF updates = <<>> THEN st
    ELSE AddEntities(add_text(st, title \o <<"\n">>, "HEADING_1", FALSE), updates)

\* the bold formatting requests (lines 271-281)
BoldRequests(bold_ranges) ==
    [k \in 1..Len(bold_ranges) |->
        Request("updateTextStyle", bold_ranges[k][1], bold_ranges[k][2], <<>>, "")]

build_document_requests(deals_u, agency_u, tech_u, date) ==
    LET titled == add_text(NewBuild, s_Weekly_Report \o date \o <<"\n">>,
                           "HEADING_1", FALSE)
        st == add_section(add_section(add_section(titled, s_Deal_Updates, deals_u),
                                      s_Agency_Partner_Updates, agency_u),
                          s_Tech_Alliances, tech_u)
    IN st.requests \o BoldRequests(st.bold_ranges)

\* the lines of one entity (lines 364-370)
RECURSIVE FieldLines(_)
FieldLines(sections) ==
    IF sections = <<>> THEN <<>>
    ELSE <<<<"*", "*">> \o Head(sections).label \o <<":", "*", "*", " ">>
             \o Head(sections).content, <<>>>>
         \o FieldLines(Tail(sections))

RECURSIVE EntityLines(_)
EntityLines(updates) ==
    IF updates = <<>> THEN <<>>
    ELSE <<<<"#", "#", " ">> \o Head(updates).name, <<>>>>
         \o FieldLines(parse_content_sections(Head(updates).text))
         \o EntityLines(Tail(updates))

\* add_section of generate_markdown_report (lines 356-370): the lines it
\* appends
SectionLines(title, updates) ==
    IF updates = <<>> THEN <<>>
    ELSE <<<<"#", " ">> \o title, <<>>>> \o EntityLines(updates)

\* the list lines of generate_markdown_report (lines 354-374)
MarkdownLines(deals_u, agency_u, tech_u, date) ==
    <<<<"#", " ">> \o s_Weekly_Report \o date, <<>>>>
    \o SectionLines(s_Deal_Updates, deals_u)
    \o SectionLines(s_Agency_Partner_Updates, agency_u)
    \o SectionLines(s_Tech_Alliances, tech_u)

\* a document of the Drive: its title, the folders it is in, and the
\* requests applied to its body
Doc(title, parents, body) == [title |-> title, parents |-> parents, body |-> body]

\* title = f"Weekly Report - {report_date}" (line 310)
ReportTitle(date) == s_Weekly_Report \o date

s_out == <<"o", "u", "t">>
s_old_date == <<"2", "0", "2", "4", "-", "0", "1", "-", "1", "5">>
s_new_date == <<"2", "0", "2", "4", "-", "0", "1", "-", "2", "2">>

\* a summary with two labels, one with no label, one whose only label has
\* no content
ReportTexts ==
    {<<"A", "c", "t", "i", "v", "i", "t", "y", ":", " ", "a", "\n", "R", "i", "s", "k", "s", ":", " ", "b">>,
     <<"h", "e", "l", "l", "o">>,
     <<"R", "i", "s", "k", "s", ":">>}

Update(name, text) == [name |-> name, text |-> text]

\* the mappings synthesize_updates can return for each class
DealUpdatesPool ==
    {<<>>} \cup {<<Update(s_Acme, t)>> : t \in ReportTexts}
           \cup {<<Update(s_Acme, t), Update(s_Bolt, t)>> : t \in ReportTexts}

AgencyUpdatesPool == {<<>>} \cup {<<Update(s_Zed, t)>> : t \in ReportTexts}

TechUpdatesPool == {<<>>, <<Update(s_Kit, <<"o", "k">>)>>}

\* where a call of generate_report can end: with its return, or with the
\* exception of get_credentials (line 139), of documents().create (line
\* 144), of files().get (line 150), of files().update (line 157) or of
\* documents().batchUpdate (line 328)
ReportOutcomes ==
    {"return", "get_credentials", "create", "files_get", "files_update",
     "batchUpdate"}

\* last week's report, in the output folder
OldDoc ==
    Doc(ReportTitle(s_old_date), <<s_out>>,
        build_document_requests(<<>>, <<>>, <<>>, s_old_date))

\* a publisher called on its own
InitReport ==
    /\ folder_id = "fid"
    /\ token_exists \in BOOLEAN
    /\ today = 22
    /\ files = <<>>
    /\ meetings = <<>>
    /\ deals = EmptyDict
    /\ pc = "report"
    /\ run = 1
    /\ notes = <<>>
    /\ i = 0
    /\ calls = <<>>
    /\ matched = EmptyDict
    /\ result = EmptyDict
    /\ exception = "none"
    /\ prev_result = EmptyDict
    /\ agency_partners = <<>>
    /\ tech_partners = <<>>
    /\ mailbox = EmptyDict
    /\ entity_domain = <<>>
    /\ data = EmptyDict
    /\ context = <<>>
    /\ args = EmptyDict
    /\ ollama = "running"
    /\ setup_ok = TRUE
    /\ we_started_ollama = FALSE
    /\ todo = <<>>
    /\ reply = EmptyDict
    /\ summary = <<>>
    /\ deal_updates \in DealUpdatesPool
    /\ agency_updates \in AgencyUpdatesPool
    /\ tech_updates \in TechUpdatesPool
    /\ events = <<>>
    /\ exit_code = -1
    /\ raw_text = <<>>
    /\ parse_result = <<>>
    /\ output_folder_id \in {<<>>, s_out}
    /\ report_date = s_new_date
    /\ docs \in {<<>>, <<OldDoc>>}
    /\ requests = <<>>
    /\ report_lines = <<>>
    /\ calendar = <<>>
    /\ active_deals = <<>>
    /\ loaded_deals = <<>>
    /\ response = <<>>

\* the variables the publishers only read
reportFixed ==
    <<folder_id, token_exists, today, files, meetings, deals, run, notes, i, calls,
      matched, result, prev_result, agency_partners, tech_partners, mailbox,
      entity_domain, data, context, args, ollama, setup_ok, we_started_ollama, todo,
      reply, summary, deal_updates, agency_updates, tech_updates, events, exit_code,
      raw_text, parse_result, output_folder_id, report_date, calendar,
      active_deals, loaded_deals, response>>

\* generate_report (lines 286-333) with create_google_doc (lines 129-166):
\* the document is created in the root of the Drive, moved to the output
\* folder if one is set, then filled by one batchUpdate, which applies all
\* its requests or none; no exception is caught and nothing is deleted
GenerateReport ==
    /\ pc = "report"
    /\ \E outcome \in ReportOutcomes :
          LET built == build_document_requests(deal_updates, agency_updates,
                                               tech_updates, report_date)
              created == Doc(ReportTitle(report_date), <<"root">>, <<>>)
              placed == IF output_folder_id # <<>>
                        THEN Doc(ReportTitle(report_date), <<output_folder_id>>, <<>>)
                        ELSE created
          IN /\ (outcome = "get_credentials") <=> ~token_exists
             /\ outcome \in {"files_get", "files_update"} => output_folder_id # <<>>
             /\ outcome = "batchUpdate" => built # <<>>
             /\ docs' = IF outcome \in {"get_credentials", "create"} THEN docs
                        ELSE IF outcome \in {"files_get", "files_update"}
                        THEN Append(docs, created)
                        ELSE IF outcome = "batchUpdate" THEN Append(docs, placed)
                        ELSE Append(docs, [placed EXCEPT !.body = built])
             /\ requests' = IF outcome \in {"batchUpdate", "return"} THEN built
                            ELSE <<>>
             /\ exception' = IF outcome = "return" THEN "none"
                             ELSE IF outcome = "get_credentials"
                             THEN "FileNotFoundError"
                             ELSE "HttpError"
             /\ pc' = IF outcome = "return" THEN "report_done" ELSE "report_failed"
    /\ UNCHANGED <<reportFixed, report_lines>>

\* generate_markdown_report (lines 336-385), called first, or after
\* generate_report failed (weekly_report.py lines 447-456)
GenerateMarkdownReport ==
    /\ pc \in {"report", "report_failed"}
    /\ report_lines' = MarkdownLines(deal_updates, agency_updates, tech_updates,
                                     report_date)
    /\ pc' = "markdown_done"
    /\ UNCHANGED <<reportFixed, docs, requests, exception>>

NextReport == GenerateReport \/ GenerateMarkdownReport

SpecReport == InitReport /\ [][NextReport]_vars

----------------------------------------------------------------------------
(* fetch_meetings: src/src/google_calendar.py.                             *)

\* EXCLUDED_COLOR_IDS (lines 22-27)
EXCLUDED_COLOR_IDS == {"1", "3", "6", "8"}

\* An event of the Calendar API: colorId is "" when the event has no
\* colorId key, timed is FALSE for an all-day event (no start.dateTime),
\* and attendees holds the email of each attendee, <<>> for an attendee
\* without the key.
Event(colorId, timed, date, title, attendees) ==
    [colorId |-> colorId, timed |-> timed, date |-> date, summary |-> title,
     attendees |-> attendees]

s_ME == <<"M", "E", "@", "M", "Y", ".", "C", "O">>

\* the attendee lists of the events: external with internal, internal
\* only, none, one attendee without email, external with an upper-case
\* domain, internal in upper case
AttendeePool ==
    {<<s_me, s_joli>>, <<s_me>>, <<>>, <<<<>>>>, <<s_al>>, <<s_ME, s_me>>}

EventPool ==
    {Event(c, TRUE, 20, t_AcmeSync, a) :
        c \in {"", "2"} \cup EXCLUDED_COLOR_IDS, a \in {<<s_me, s_joli>>, <<s_me>>}}
    \cup {Event("", TRUE, 21, t_Intro, a) : a \in AttendeePool}
    \cup {Event("", FALSE, 21, t_ZedDemo, <<s_kim>>)}

\* the lists of at most MaxEvents events
Calendars ==
    UNION {[1..n -> EventPool] : n \in 0..MaxEvents}

\* the loop of fetch_meetings (lines 118-150) from event k on; the id of
\* an event is its position in the listing
RECURSIVE FetchLoop(_, _, _)
FetchLoop(evs, k, internal) ==
    IF k > Len(evs) THEN <<>>
    ELSE (IF \/ evs[k].colorId \in EXCLUDED_COLOR_IDS
             \/ ~evs[k].timed
             \/ is_internal_only(evs[k].attendees, internal)
          THEN <<>>
          ELSE <<[event_id |-> ToString(k), date |-> evs[k].date,
                  title |-> evs[k].summary, attendees |-> evs[k].attendees,
                  domains |-> get_external_domains(evs[k].attendees, internal)]>>)
         \o FetchLoop(evs, k + 1, internal)

fetch_meetings(evs, internal) == FetchLoop(evs, 1, internal)

\* fetch_meetings called on its own
InitFetch ==
    /\ ScanIdle
    /\ deals = EmptyDict
    /\ pc = "fetch"
    /\ agency_partners = <<>>
    /\ tech_partners = <<>>
    /\ mailbox = EmptyDict
    /\ entity_domain = <<>>
    /\ data = EmptyDict
    /\ context = <<>>
    /\ args = EmptyDict
    /\ ollama = "running"
    /\ setup_ok = TRUE
    /\ we_started_ollama = FALSE
    /\ todo = <<>>
    /\ reply = EmptyDict
    /\ summary = <<>>
    /\ deal_updates = <<>>
    /\ agency_updates = <<>>
    /\ tech_updates = <<>>
    /\ events = <<>>
    /\ exit_code = -1
    /\ raw_text = <<>>
    /\ parse_result = <<>>
    /\ output_folder_id = <<>>
    /\ report_date = <<>>
    /\ docs = <<>>
    /\ requests = <<>>
    /\ report_lines = <<>>
    /\ calendar \in Calendars
    /\ active_deals = <<>>
    /\ loaded_deals = <<>>
    /\ response = <<>>

FetchMeetings ==
    /\ pc = "fetch"
    /\ meetings' = fetch_meetings(calendar, internal_domain)
    /\ pc' = "fetched"
    /\ UNCHANGED <<folder_id, token_exists, today, files, deals, run, notes, i, calls,
                   matched, result, exception, prev_result>>
    /\ UNCHANGED pipeVars

NextFetch == FetchMeetings

SpecFetch == InitFetch /\ [][NextFetch]_vars

----------------------------------------------------------------------------
(* run_interview: src/src/interview.py.                                    *)

\* text.split(sep)
RECURSIVE SplitOnAcc(_, _, _, _)
SplitOnAcc(text, sep, cur, acc) ==
    IF text = <<>> THEN Append(acc, cur)
    ELSE IF Head(text) = sep THEN SplitOnAcc(Tail(text), sep, <<>>, Append(acc, cur))
    ELSE SplitOnAcc(Tail(text), sep, Append(cur, Head(text)), acc)

SplitOn(text, sep) == SplitOnAcc(text, sep, <<>>, <<>>)

Digits == {"0", "1", "2", "3", "4", "5", "6", "7", "8", "9"}

\* the digits of a numeral: the numeral without white space around it and
\* without its sign
Numeral(x) ==
    LET t == Strip(x)
    IN IF t # <<>> /\ t[1] \in {"+", "-"} THEN Tail(t) ELSE t

\* int(x) returns: x is an optional sign and decimal digits, with white
\* space around; otherwise int raises ValueError
IntValid(x) ==
    Numeral(x) # <<>> /\ \A k \in 1..Len(Numeral(x)) : Numeral(x)[k] \in Digits

RECURSIVE DigitsValue(_, _)
DigitsValue(ds, acc) ==
    IF ds = <<>> THEN acc
    ELSE DigitsValue(Tail(ds),
                     10 * acc + (CHOOSE d \in 0..9 : ToString(d) = Head(ds)))

\* int(x)
IntOf(x) ==
    IF Strip(x)[1] = "-" THEN 0 - DigitsValue(Numeral(x), 0)
    ELSE DigitsValue(Numeral(x), 0)

\* the positions entered taken as 0-based indices
MutIndices(resp) ==
    LET parts == SplitOn(resp, ",")
    IN [k \in 1..Len(parts) |-> IntOf(parts[k])]

\* indices = [int(x.strip()) - 1 for x in response.split(",")] (line 127)
Indices(resp) ==
    LET parts == SplitOn(resp, ",")
    IN [k \in 1..Len(parts) |-> IntOf(parts[k]) - 1]

\* new_deals of the loop of lines 131-135, from the deal of 0-based index n on
RECURSIVE NewDeals(_, _, _)
NewDeals(ds, n, idx) ==
    IF ds = <<>> THEN <<>>
    ELSE (IF n \in Range(idx) THEN <<>> ELSE <<Head(ds)>>)
         \o NewDeals(Tail(ds), n + 1, idx)

\* active_deals.json after the review of the loaded list ds with the line
\* resp typed (lines 115-146): saved only if a deal was removed
Review(ds, resp) ==
    IF ds = <<>> \/ resp = <<>> THEN ds
    ELSE IF \E x \in Range(SplitOn(resp, ",")) : ~IntValid(x) THEN ds
    ELSE NewDeals(ds, 0, Indices(resp))

\* an entry of active_deals.json
Deal(domain, name, added) == [domain |-> domain, name |-> name, added |-> added]

\* active_deals.json before the interview
ActiveDealsPool ==
    {<<>>,
     <<Deal(s_kit_io, s_Kit, today - 14)>>,
     <<Deal(s_kit_io, s_Kit, today - 14), Deal(s_acme_com, s_Acme, today - 7)>>}

\* the meetings get_new_external_domains gets from fetch_meetings
InterviewMeetings ==
    {<<>>, <<MeetingPool[3]>>, <<MeetingPool[1], MeetingPool[2]>>}

\* the entries typed at the removal prompt
EntryPool ==
    {<<"1">>,
     <<" ", "2">>,
     <<"3">>,
     <<"0">>,
     <<"x">>,
     <<>>,
     <<"-", "1">>}

\* the lines typed at the removal prompt: at most MaxEntries entries
\* separated by commas, stripped by line 123
ResponsePool ==
    {Strip(Join(q, <<",">>)) :
        q \in UNION {[1..n -> EntryPool] : n \in 1..MaxEntries}}

\* known_domains of lines 66-69
KnownDomains(ds, agencies, techs) ==
    {ds[k].domain : k \in 1..Len(ds)}
       \cup {agencies[k].domain : k \in 1..Len(agencies)}
       \cup {techs[k].domain : k \in 1..Len(techs)}
       \cup {internal_domain}

\* the keys of the dict get_new_external_domains returns
\* (google_calendar.py lines 165-175)
NewDomains(ms, known) == (UNION {ms[k].domains : k \in 1..Len(ms)}) \ known

\* the orders in which the dict can hold its keys: by first meeting, and
\* in the iteration order of the set within a meeting
NewDomainOrders(ms, known) ==
    LET first(d) == CHOOSE k \in 1..Len(ms) :
                       d \in ms[k].domains /\ \A j \in 1..(k - 1) : d \notin ms[j].domains
    IN {q \in Orders(NewDomains(ms, known)) :
           \A a, b \in 1..Len(q) : a < b => first(q[a]) <= first(q[b])}

\* the deals appended for the domains of order q with the names typed
\* (lines 83-103)
RECURSIVE Appended(_, _, _)
Appended(q, names, added) ==
    IF q = <<>> THEN <<>>
    ELSE (IF names[Head(q)] # <<>> THEN <<Deal(Head(q), names[Head(q)], added)>>
          ELSE <<>>)
         \o Appended(Tail(q), names, added)

\* run_interview called on its own
InitInterview ==
    /\ folder_id = "fid"
    /\ token_exists = TRUE
    /\ today = 22
    /\ files = <<>>
    /\ meetings \in InterviewMeetings
    /\ deals = EmptyDict
    /\ pc = "classify"
    /\ run = 1
    /\ notes = <<>>
    /\ i = 0
    /\ calls = <<>>
    /\ matched = EmptyDict
    /\ result = EmptyDict
    /\ exception = "none"
    /\ prev_result = EmptyDict
    /\ agency_partners = <<>>
    /\ tech_partners = <<>>
    /\ mailbox = EmptyDict
    /\ entity_domain = <<>>
    /\ data = EmptyDict
    /\ context = <<>>
    /\ args = EmptyDict
    /\ ollama = "running"
    /\ setup_ok = TRUE
    /\ we_started_ollama = FALSE
    /\ todo = <<>>
    /\ reply = EmptyDict
    /\ summary = <<>>
    /\ deal_updates = <<>>
    /\ agency_updates = <<>>
    /\ tech_updates = <<>>
    /\ events = <<>>
    /\ exit_code = -1
    /\ raw_text = <<>>
    /\ parse_result = <<>>
    /\ output_folder_id = <<>>
    /\ report_date = <<>>
    /\ docs = <<>>
    /\ requests = <<>>
    /\ report_lines = <<>>
    /\ calendar = <<>>
    /\ active_deals \in ActiveDealsPool
    /\ loaded_deals = <<>>
    /\ response = <<>>

\* the variables run_interview only reads
interviewFixed ==
    <<folder_id, token_exists, today, files, meetings, deals, run, notes, i, calls,
      matched, result, exception, prev_result, agency_partners, tech_partners,
      mailbox, entity_domain, data, context, mainVars, raw_text, parse_result,
      output_folder_id, report_date, docs, requests, report_lines, calendar>>

\* lines 65-106: the new domains are shown one by one and the deals named
\* by the user are appended to active_deals.json
ClassifyNewDomains ==
    /\ pc = "classify"
    /\ LET known == KnownDomains(active_deals, agency_partners, tech_partners)
       IN IF NewDomains(meetings, known) = {}
          THEN UNCHANGED active_deals
          ELSE \E q \in NewDomainOrders(meetings, known) :
                  \E names \in [NewDomains(meetings, known) -> {<<>>, s_Zed}] :
                     active_deals' = active_deals \o Appended(q, names, today)
    /\ pc' = "review"
    /\ UNCHANGED <<interviewFixed, loaded_deals, response>>

\* lines 108-146: the deals are loaded and listed, the user types the
\* positions to remove, and the list without them is saved
ReviewDeals ==
    /\ pc = "review"
    /\ loaded_deals' = active_deals
    /\ IF active_deals = <<>>
       THEN response' = <<>>
       ELSE response' \in ResponsePool
    /\ active_deals' = Review(active_deals, response')
    /\ pc' = "reviewed"
    /\ UNCHANGED interviewFixed

NextInterview == ClassifyNewDomains \/ ReviewDeals

SpecInterview == InitInterview /\ [][NextInterview]_vars

----------------------------------------------------------------------------
(* Properties.                                                             *)

Calls == 1..Len(calls)

\* the ids of the events for which a call returned a note
MatchedIds == {calls[k].meeting.event_id : k \in {j \in Calls : calls[j].note # NoNote}}

\* C1: every note match_meeting_to_note returns, and every note of an entry
\* of the match set, has the date of the meeting it is paired with.
C1_DateGate ==
    /\ \A k \in Calls :
          calls[k].note # NoNote => calls[k].note[1].date = calls[k].meeting.date
    /\ \A id \in DOMAIN matched : matched[id].note.date = matched[id].meeting.date
    /\ \A id \in DOMAIN result : result[id].note.date = result[id].meeting.date

\* A meeting got a note while a note of another date, whose attendee names
\* pass the attendee-name strategy for that meeting, was among the notes.
C1_Witness ==
    \E k \in Calls :
        /\ calls[k].note # NoNote
        /\ \E n \in Range(notes) :
              /\ n.date # calls[k].meeting.date
              /\ AttendeeHit(calls[k].meeting.attendees, n, calls[k].threshold)

\* C2: when a note of the meeting's date carries the meeting's calendar-event
\* identifier, the matcher returns a note carrying that identifier, however
\* dissimilar the attendee, company and title fields are.
C2_ExactIdShortCircuits ==
    \A k \in Calls :
        LET m == calls[k].meeting
            dn == DateNotes(m.date, notes)
        IN (\E n \in Range(dn) : n.event_id # "" /\ n.event_id = m.event_id)
              => /\ calls[k].note # NoNote
                 /\ calls[k].note[1].event_id = m.event_id

\* C3: no note is paired with two different meetings in the match set.
C3_OneMeetingPerNote ==
    \A a, b \in DOMAIN matched : a # b => matched[a].note # matched[b].note

\* the attendee-name strategy accepts note n in call c
PassesAttendee(c, n) == AttendeeHit(c.meeting.attendees, n, c.threshold)

\* the company-name strategy is attempted in call c and accepts note n
PassesCompany(c, n) ==
    c.company_name # <<>> /\ CompanyHit(c.company_name, n, c.threshold)

\* the title strategy is attempted in call c and accepts note n
PassesTitle(c, n) ==
    c.meeting.title # <<>> /\ TitleHit(c.meeting.title, n, c.threshold)

\* C4: if a same-date note passes the attendee-name strategy, the returned
\* note passes it; otherwise, if a same-date note passes the company-name
\* strategy, the returned note passes that; a note returned on the title
\* strategy alone means no same-date note passes either earlier strategy.
C4_StrategyPriority ==
    \A k \in Calls :
        LET c == calls[k]
            dn == Range(DateNotes(c.meeting.date, notes))
            someAttendee == \E n \in dn : PassesAttendee(c, n)
            someCompany == \E n \in dn : PassesCompany(c, n)
        IN /\ someAttendee => c.note # NoNote /\ PassesAttendee(c, c.note[1])
           /\ (~someAttendee /\ someCompany)
                 => c.note # NoNote /\ PassesCompany(c, c.note[1])
           /\ (c.note # NoNote /\ ~PassesAttendee(c, c.note[1])
                               /\ ~PassesCompany(c, c.note[1]))
                 => ~someAttendee /\ ~someCompany /\ PassesTitle(c, c.note[1])

\* A call returned a note on the attendee-name strategy although a note that
\* comes earlier in the notes passes the company-name strategy only.
C4_Witness ==
    \E k \in Calls :
        LET c == calls[k]
            dn == DateNotes(c.meeting.date, notes)
        IN /\ c.note # NoNote
           /\ PassesAttendee(c, c.note[1])
           /\ \E a, b \in 1..Len(dn) :
                 /\ a < b
                 /\ dn[b] = c.note[1]
                 /\ PassesCompany(c, dn[a])
                 /\ ~PassesAttendee(c, dn[a])

\* the score is exactly v
ScoreIs(ratio, v) == ratio.num = v * ratio.den

\* the scores of note n in the three fuzzy strategies of call c
AttendeeScores(c, n) ==
    {token_sort_ratio(Lower(EmailName(ma)), Lower(na)) :
        ma \in Range(c.meeting.attendees), na \in Range(n.attendees)}

CompanyScore(c, n) == token_sort_ratio(Lower(c.company_name), Lower(n.company))

TitleScore(c, n) == token_sort_ratio(Lower(c.meeting.title), Lower(NoteDesc(n)))

\* note n clears no strategy of call c: every fuzzy score it has is below
\* the threshold and no literal-substring rule applies to it
BelowEverywhere(c, n) ==
    /\ \A r \in AttendeeScores(c, n) : r.num < c.threshold * r.den
    /\ \/ c.company_name = <<>>
       \/ /\ n.company = <<>> \/ CompanyScore(c, n).num < c.threshold * CompanyScore(c, n).den
          /\ \A a \in Range(n.attendees) : ~IsSubstring(Lower(c.company_name), Lower(a))
    /\ \/ c.meeting.title = <<>>
       \/ /\ n.company = <<>> \/ ~IsSubstring(Lower(n.company), Lower(c.meeting.title))
          /\ \A a \in Range(n.attendees) : ~IsSubstring(Lower(a), Lower(c.meeting.title))
          /\ TitleScore(c, n).num < c.threshold * TitleScore(c, n).den

\* C5: in each fuzzy strategy a score equal to the threshold is accepted (a
\* same-date note with an attendee score, a company score or a title score
\* exactly at the threshold makes the call return a note), and a score below
\* it, one point below included, is not (a note that is below the threshold
\* in every strategy and meets no literal rule is never returned).
C5_ThresholdBoundary ==
    \A k \in Calls :
        LET c == calls[k]
            dn == Range(DateNotes(c.meeting.date, notes))
        IN /\ (\E n \in dn : \E r \in AttendeeScores(c, n) : ScoreIs(r, c.threshold))
                 => c.note # NoNote
           /\ (\E n \in dn : /\ c.company_name # <<>>
                             /\ n.company # <<>>
                             /\ ScoreIs(CompanyScore(c, n), c.threshold))
                 => c.note # NoNote
           /\ (\E n \in dn : c.meeting.title # <<>> /\ ScoreIs(TitleScore(c, n), c.threshold))
                 => c.note # NoNote
           /\ c.note # NoNote => ~BelowEverywhere(c, c.note[1])

\* the only same-date note of call c scores exactly v in the named strategy
\* and nothing else about it clears a strategy at threshold v + 1
OnlyNoteScores(c, v, strategy) ==
    LET dn == DateNotes(c.meeting.date, notes)
    IN /\ Len(dn) = 1
       /\ CASE strategy = "attendee" -> \E r \in AttendeeScores(c, dn[1]) : ScoreIs(r, v)
            [] strategy = "company" ->
                  /\ c.company_name # <<>> /\ dn[1].company # <<>>
                  /\ ScoreIs(CompanyScore(c, dn[1]), v)
            [] strategy = "title" -> ScoreIs(TitleScore(c, dn[1]), v)
       /\ BelowEverywhere([c EXCEPT !.threshold = v + 1], dn[1])

\* A call with threshold 60 whose only same-date note scores exactly 60 in the
\* attendee-name strategy, and clears nothing at 61, returned that note.
C5_Witness ==
    \E k \in Calls :
        /\ calls[k].threshold = DefaultThreshold
        /\ OnlyNoteScores(calls[k], DefaultThreshold, "attendee")
        /\ calls[k].note # NoNote

\* The same for the company-name and the title strategy.
C5_WitnessCompany ==
    \E k \in Calls :
        /\ calls[k].threshold = DefaultThreshold
        /\ OnlyNoteScores(calls[k], DefaultThreshold, "company")
        /\ calls[k].note # NoNote

C5_WitnessTitle ==
    \E k \in Calls :
        /\ calls[k].threshold = DefaultThreshold
        /\ OnlyNoteScores(calls[k], DefaultThreshold, "title")
        /\ calls[k].note # NoNote

\* A call with threshold 61 whose only same-date note scores exactly 60, one
\* point below, in the named strategy returned nothing.
C5_WitnessBelowAttendee ==
    \E k \in Calls :
        /\ calls[k].threshold = DefaultThreshold + 1
        /\ OnlyNoteScores(calls[k], DefaultThreshold, "attendee")
        /\ calls[k].note = NoNote

C5_WitnessBelowCompany ==
    \E k \in Calls :
        /\ calls[k].threshold = DefaultThreshold + 1
        /\ OnlyNoteScores(calls[k], DefaultThreshold, "company")
        /\ calls[k].note = NoNote

C5_WitnessBelowTitle ==
    \E k \in Calls :
        /\ calls[k].threshold = DefaultThreshold + 1
        /\ OnlyNoteScores(calls[k], DefaultThreshold, "title")
        /\ calls[k].note = NoNote

\* C6: the match set holds an entry for exactly the meetings for which
\* match_meeting_to_note returned a note, each entry holding that meeting and
\* that note; a meeting for which it returned None has no entry, and the
\* call returns this set without raising.
C6_MatchSetComposition ==
    /\ pc \in {"loop", "done"} =>
          /\ Len(calls) = i
          /\ \A k \in Calls : calls[k].meeting = meetings[k]
          /\ DOMAIN matched = MatchedIds
          /\ \A k \in Calls :
                calls[k].note # NoNote =>
                    matched[calls[k].meeting.event_id] =
                        [meeting |-> meetings[k], note |-> calls[k].note[1]]
    /\ pc = "done" =>
          /\ result = matched
          /\ exception = "none"
          /\ notes # <<>> => i = Len(meetings)

\* A call returned with one meeting in the match set and another, for which
\* no note cleared any strategy, absent from it.
C6_Witness ==
    /\ pc = "done"
    /\ \E k, j \in Calls :
          /\ calls[k].note # NoNote
          /\ calls[j].note = NoNote
          /\ calls[k].meeting.event_id \in DOMAIN result
          /\ calls[j].meeting.event_id \notin DOMAIN result

\* the domains of meeting m that the deals mapping tracks
Tracked(m) == m.domains \cap DOMAIN deals

\* C7: the resolved company name is the name of a tracked domain of the
\* meeting when the meeting has one, and the empty string when it has none.
C7_ResolverResult ==
    \A k \in Calls :
        IF Tracked(calls[k].meeting) # {}
        THEN \E d \in Tracked(calls[k].meeting) : calls[k].company_name = deals[d]
        ELSE calls[k].company_name = <<>>

\* One meeting with a tracked and an untracked domain resolved to a name,
\* and one meeting with no tracked domain resolved to the empty string.
C7_Witness ==
    \E k, j \in Calls :
        /\ Tracked(calls[k].meeting) # {}
        /\ Tracked(calls[k].meeting) # calls[k].meeting.domains
        /\ calls[k].company_name # <<>>
        /\ Tracked(calls[j].meeting) = {}
        /\ calls[j].meeting.domains # {}
        /\ calls[j].company_name = <<>>

\* the lexically smallest element of a non-empty set of strings
LexMin(S) == CHOOSE x \in S : \A y \in S \ {x} : LexLess(x, y)

\* C8: for a meeting with tracked domains the resolved name is the name of
\* the lexically smallest tracked domain, whatever the iteration order.
C8_ResolverDeterminism ==
    \A k \in Calls :
        Tracked(calls[k].meeting) # {} =>
            calls[k].company_name = deals[LexMin(Tracked(calls[k].meeting))]

\* C9: a second call of get_notes_for_meetings on the same meetings, notes
\* and deals returns the match set the first call returned.
C9_Idempotence ==
    (pc = "done" /\ run = 2) => result = prev_result

\* the note source is unreachable: no folder id, no token, or the listing failed
SourceUnreachable ==
    folder_id = "" \/ ~token_exists \/ exception = "HttpError"

\* C10: when the note source is unreachable the call ends with an empty
\* match set and no exception leaves it.
C10_SourceUnavailable ==
    (pc \in {"loop", "done", "raised"} /\ SourceUnreachable) =>
        /\ pc = "done"
        /\ exception = "none"
        /\ notes = <<>>
        /\ result = EmptyDict

----------------------------------------------------------------------------
\* label is non-empty and a case-insensitive literal substring of title
LiteralIn(label, title) == label # <<>> /\ IsSubstring(Lower(label), Lower(title))

\* C11: when the title strategy is reached (the title is non-empty and no
\* same-date note passed the attendee-name or company-name strategy), a
\* same-date note whose company label, topic label or some attendee name is
\* a literal case-insensitive substring of the meeting title is accepted, so
\* the call returns a note.
C11_TitleLiteralSubstring ==
    \A k \in Calls :
        LET c == calls[k]
            dn == DateNotes(c.meeting.date, notes)
        IN (/\ c.meeting.title # <<>>
            /\ \E n \in Range(dn) :
                  \/ LiteralIn(n.company, c.meeting.title)
                  \/ LiteralIn(n.topic, c.meeting.title)
                  \/ \E a \in Range(n.attendees) : LiteralIn(a, c.meeting.title))
              => c.note # NoNote

\* note n clears the company-name strategy of call c, from the scores
CompanyPass(c, n) ==
    \/ /\ n.company # <<>>
       /\ CompanyScore(c, n).num >= c.threshold * CompanyScore(c, n).den
    \/ \E a \in Range(n.attendees) : IsSubstring(Lower(c.company_name), Lower(a))

\* no same-date note of call c clears the attendee-name strategy
NoAttendeePass(c) ==
    \A n \in Range(DateNotes(c.meeting.date, notes)) :
        \A r \in AttendeeScores(c, n) : r.num < c.threshold * r.den

\* C12: when the resolved entity name is non-empty, no same-date note passed
\* the attendee-name strategy, and the name scores at or above the threshold
\* against the company label of a same-date note, the call returns the first
\* same-date note that clears the company-name strategy.
C12_CompanyAcceptance ==
    \A k \in Calls :
        LET c == calls[k]
            dn == DateNotes(c.meeting.date, notes)
        IN (/\ c.company_name # <<>>
            /\ NoAttendeePass(c)
            /\ \E n \in Range(dn) :
                  /\ n.company # <<>>
                  /\ CompanyScore(c, n).num >= c.threshold * CompanyScore(c, n).den)
              => /\ c.note # NoNote
                 /\ \E j \in 1..Len(dn) :
                       /\ c.note[1] = dn[j]
                       /\ CompanyPass(c, dn[j])
                       /\ \A h \in 1..(j - 1) : ~CompanyPass(c, dn[h])

\* A meeting resolved to the entity name "Acme" got the note labelled "Acme"
\* while no same-date note cleared the attendee-name strategy and a same-date
\* note that clears no company test came before it in dict order.
C12_Witness ==
    \E k \in Calls :
        LET c == calls[k]
            dn == DateNotes(c.meeting.date, notes)
        IN /\ c.company_name = s_Acme
           /\ NoAttendeePass(c)
           /\ c.note # NoNote
           /\ c.note[1].company = s_Acme
           /\ Len(dn) = 2
           /\ c.note[1] = dn[2]
           /\ ~CompanyPass(c, dn[1])

----------------------------------------------------------------------------
(* build_context.                                                          *)

\* the entries of the match set whose meeting involves the entity's domain
OwnEntries ==
    {k \in 1..Len(data.meetings_with_notes) :
        entity_domain \in data.meetings_with_notes[k].meeting.domains}

\* the mail the entity's domain has
OwnMail == get_domain_emails(mailbox[entity_domain])

\* text ends with suffix
EndsWith(text, suffix) ==
    /\ Len(suffix) <= Len(text)
    /\ SubSeq(text, Len(text) - Len(suffix) + 1, Len(text)) = suffix

\* C13: the context holds one meeting header per match-set entry whose
\* meeting's domains contain the entity's domain and none for the others,
\* each such entry's header (date and title) being followed on the next line
\* by its note's content; it holds the correspondence header exactly when
\* the entity has mail, and then ends with that header and the mail.
C13_ContextComposition ==
    pc = "built" =>
        /\ Cardinality({k \in 1..Len(context) : context[k] = "=== MEETING: "})
              = Cardinality(OwnEntries)
        /\ \A k \in OwnEntries :
              LET entry == data.meetings_with_notes[k]
              IN IsSubstring(<<"=== MEETING: ", ToString(entry.meeting.date), " - ">>
                                \o entry.meeting.title \o <<" ===", "\n">>
                                \o entry.note.content \o <<"\n">>,
                             context)
        /\ (\E k \in 1..Len(context) : context[k] = "=== EMAIL CORRESPONDENCE ===")
              <=> OwnMail # <<>>
        /\ OwnMail # <<>> =>
              EndsWith(context, <<"=== EMAIL CORRESPONDENCE ===", "\n">> \o OwnMail)

\* One matched note for the entity and no mail: the context is the meeting
\* header and the note's content, with no correspondence header.
C13_Witness ==
    /\ pc = "built"
    /\ Len(data.meetings_with_notes) = 1
    /\ OwnEntries = {1}
    /\ data.meetings_with_notes[1].note.content = <<"n", "2">>
    /\ OwnMail = <<>>
    /\ context = <<"=== MEETING: ", "20", " - ", "A", "c", "m", "e", " ", "S", "y", "n", "c",
                   " ===", "\n", "n", "2", "\n">>

\* C14: when no match-set entry of the entity's domain has a note with
\* content and the entity has no mail, build_context returns the empty string.
C14_EmptyContext ==
    (/\ pc = "built"
     /\ \A k \in OwnEntries : data.meetings_with_notes[k].note.content = <<>>
     /\ OwnMail = <<>>)
       => context = <<>>

----------------------------------------------------------------------------
(* synthesize.                                                             *)

\* C17: whatever the outcome of the backend request, synthesize returns a
\* string and raises nothing; when the request did not give a status-200
\* response carrying a response text, the string starts with "Error:".
C17_NeverThrows ==
    pc = "synth_done" =>
        /\ exception = "none"
        /\ ~(reply.kind = "http" /\ reply.status = 200 /\ reply.body = "text")
              => StartsWith(summary, ErrorPrefix)

----------------------------------------------------------------------------
(* main and synthesize_updates.                                            *)

Events == 1..Len(events)

\* text holds a character that is not white space
NonBlank(text) == \E k \in 1..Len(text) : text[k] \notin {" ", "\n", "\t"}

\* the names that have an entry in some updates dict
UpdatedNames ==
    {deal_updates[k].name : k \in 1..Len(deal_updates)}
       \cup {agency_updates[k].name : k \in 1..Len(agency_updates)}
       \cup {tech_updates[k].name : k \in 1..Len(tech_updates)}

\* the name of the entity an event concerns
NameOf(e) == EntityName(e.entity, deals, agency_partners, tech_partners)

\* C15: every call of synthesize passes the context just built for the
\* entity, and that context is non-blank; an entity whose built context is
\* blank is followed by no call of synthesize and has no entry in the updates.
C15_NoCallOnEmptyContext ==
    /\ \A k \in Events :
          events[k].op = "synthesize" =>
             /\ NonBlank(events[k].text)
             /\ k > 1
             /\ events[k - 1] = [events[k] EXCEPT !.op = "build_context"]
    /\ \A k \in Events :
          (events[k].op = "build_context" /\ ~NonBlank(events[k].text)) =>
             /\ k < Len(events) => events[k + 1].op # "synthesize"
             /\ NameOf(events[k]) \notin UpdatedNames

\* A finished run in which one entity's context was empty, with no call
\* made for it, and another entity was synthesized and got an entry.
C15_Witness ==
    /\ pc = "exited"
    /\ exit_code = 0
    /\ \E k \in Events :
          /\ events[k].op = "build_context"
          /\ events[k].text = <<>>
          /\ k < Len(events)
          /\ events[k + 1].op # "synthesize"
    /\ \E k \in Events :
          /\ events[k].op = "synthesize"
          /\ NameOf(events[k]) \in UpdatedNames

\* the index of the call of synthesize made last, 0 if none was made
LastSynthesize ==
    IF \E k \in Events : events[k].op = "synthesize"
    THEN CHOOSE k \in Events :
            /\ events[k].op = "synthesize"
            /\ \A j \in Events : events[j].op = "synthesize" => j <= k
    ELSE 0

\* the call of synthesize made last returned an error-prefixed string
LastSynthesizeFailed ==
    LastSynthesize > 0 /\ exception = "none" /\ StartsWith(summary, ErrorPrefix)

\* C16: when a call of synthesize returns an error-prefixed string, a warning
\* carrying that string is logged for the entity right after the call, the
\* entity has no entry in the updates, and a run that ends without an
\* exception has built the context of every configured entity.
C16_FailureIsolated ==
    /\ LastSynthesizeFailed =>
          LET k == LastSynthesize
          IN /\ k < Len(events)
             /\ events[k + 1] = Ev("warning", events[k].entity, summary)
             /\ NameOf(events[k]) \notin UpdatedNames
    /\ (pc = "exited" /\ exception = "none" /\ data # EmptyDict) =>
          \A d \in EntityDomains(deals, agency_partners, tech_partners) :
             \E k \in Events : events[k].op = "build_context" /\ events[k].entity = d

\* the operations of the per-entity stage, and those of report assembly
EntityOps == {"get_domain_emails", "build_context", "synthesize"}
PublisherOps == {"generate_report", "generate_markdown_report"}

\* the calendar fetch comes first, then the scan, then the matching, and
\* all three before any per-entity operation
CollectFirst ==
    \A k \in Events :
       /\ events[k].op = "scan_drive_notes" =>
             \E j \in 1..(k - 1) : events[j].op = "fetch_meetings"
       /\ events[k].op = "match_meeting_to_note" =>
             \E j \in 1..(k - 1) : events[j].op = "scan_drive_notes"
       /\ events[k].op \in EntityOps =>
             /\ \E j \in 1..(k - 1) : events[j].op = "scan_drive_notes"
             /\ \A j \in Events :
                   events[j].op \in {"fetch_meetings", "scan_drive_notes",
                                     "match_meeting_to_note"} => j < k

\* a publisher is called only after every configured entity's context was
\* built, and after every per-entity operation
AssemblyLast ==
    \A k \in Events :
       events[k].op \in PublisherOps =>
          /\ \A j \in Events : events[j].op \in EntityOps => j < k
          /\ \A d \in EntityDomains(deals, agency_partners, tech_partners) :
                \E j \in 1..(k - 1) :
                   events[j].op = "build_context" /\ events[j].entity = d

\* every call of synthesize comes right after the context build of its entity
SynthesisFollowsBuild ==
    \A k \in Events :
       events[k].op = "synthesize" =>
          k > 1 /\ events[k - 1] = [events[k] EXCEPT !.op = "build_context"]

\* C18 as stated: meeting fetch, note scan and matching come first; then
\* each entity in turn has its correspondence fetched, its context built
\* right after that, and its synthesis right after the build; report
\* assembly comes after every entity.
C18_FixedOrder ==
    /\ CollectFirst
    /\ \A k \in Events :
          events[k].op = "build_context" =>
             k > 1 /\ events[k - 1] = Ev("get_domain_emails", events[k].entity, <<>>)
    /\ SynthesisFollowsBuild
    /\ AssemblyLast

\* the class an entity's domain is processed in
ClassRank(d) ==
    IF d \in DOMAIN deals THEN 1
    ELSE IF \E k \in 1..Len(agency_partners) : agency_partners[k].domain = d THEN 2
    ELSE 3

\* C18, amended: meeting fetch, note scan and matching come first; then the
\* correspondence of every entity is fetched, class by class (deals, agency
\* partners, tech partners), before any context is built; then each entity
\* in turn, class by class, has its context built and, right after the
\* build, its synthesis; report assembly comes after every entity.
C18_CollectThenSynthesize ==
    /\ CollectFirst
    /\ \A k \in Events :
          events[k].op = "build_context" =>
             /\ \A j \in Events : events[j].op = "get_domain_emails" => j < k
             /\ \A d \in EntityDomains(deals, agency_partners, tech_partners) :
                   \E j \in 1..(k - 1) :
                      events[j] = Ev("get_domain_emails", d, <<>>)
    /\ \A j, k \in Events :
          (/\ j < k
           /\ events[j].op = events[k].op
           /\ events[j].op \in {"get_domain_emails", "build_context"})
             => ClassRank(events[j].entity) <= ClassRank(events[k].entity)
    /\ SynthesisFollowsBuild
    /\ AssemblyLast

\* A finished run with a report, in which the correspondence of two entities
\* was fetched back to back before the first context build, and both
\* entities were then synthesized.
C18_Witness ==
    /\ pc = "exited"
    /\ exit_code = 0
    /\ \E k \in Events : events[k].op \in PublisherOps
    /\ \E k \in Events :
          /\ k + 2 <= Len(events)
          /\ events[k].op = "get_domain_emails"
          /\ events[k + 1].op = "get_domain_emails"
          /\ events[k + 2].op = "build_context"
          /\ \E a, b \in Events :
                /\ events[a] = Ev("synthesize", events[k].entity, events[a].text)
                /\ events[b] = Ev("synthesize", events[k + 1].entity, events[b].text)

\* what the run does beyond its start-up checks and its clean-up
WorkOps ==
    {"dry_run", "run_interview", "fetch_meetings", "scan_drive_notes",
     "match_meeting_to_note", "get_domain_emails", "build_context", "synthesize",
     "generate_report", "generate_markdown_report", "git_commit"}

\* token.json is missing, or the summarization backend is not set up
PrerequisiteMissing ==
    ~token_exists \/ ~setup_ok \/ ollama \in {"unready", "missing"}

\* C19: when token.json or the summarization setup is missing, the run makes
\* no interview, no calendar fetch, no note scan, no correspondence fetch,
\* no synthesis and no report, and the process exits with a non-zero status.
C19_PrerequisiteFatal ==
    PrerequisiteMissing =>
       /\ \A k \in Events : events[k].op \notin WorkOps
       /\ exit_code \in {-1, 1}
       /\ pc = "exited" => exit_code = 1

\* A run with the interview not skipped and token.json missing has exited
\* with status 1 right after the prerequisite check; and so has one whose
\* summarization setup is missing.
C19_Witness ==
    /\ pc = "exited"
    /\ exit_code = 1
    /\ ~args.skip_interview
    /\ ~token_exists \/ ~setup_ok
    /\ \E k \in Events : events[k].op = "check_prerequisites"

\* the positions of the calls of operation op
CallsOf(op) == {k \in Events : events[k].op = op}

\* C20: without --markdown-only the Google Doc publisher is called once; if
\* it fails, the failure is caught and the Markdown publisher is called
\* right after it, once, with the same three update mappings and report
\* date, which are those of the run; the Markdown publisher is called as a
\* fallback only; when it fails the exception ends the run with no further
\* publisher call.
C20_PublisherFallback ==
    /\ Cardinality(CallsOf("generate_report")) <= 1
    /\ Cardinality(CallsOf("generate_markdown_report")) <= 1
    /\ Cardinality(CallsOf("generate_report_failed")) <= 1
    /\ args # EmptyDict /\ args.markdown_only => CallsOf("generate_report") = {}
    /\ \A k \in CallsOf("generate_report_failed") :
          /\ k > 1 /\ k < Len(events)
          /\ events[k - 1].op = "generate_report"
          /\ events[k + 1] = Ev("generate_markdown_report", <<>>, events[k - 1].text)
          /\ events[k + 1].text =
                <<deal_updates, agency_updates, tech_updates, ToString(today)>>
    /\ \A k \in CallsOf("generate_markdown_report") :
          ~args.markdown_only => k > 1 /\ events[k - 1].op = "generate_report_failed"
    /\ exception = "OSError" =>
          /\ exit_code = 1
          /\ \A k \in Events :
                (\E j \in CallsOf("generate_markdown_report") : j < k)
                   => events[k].op = "stop_ollama"

\* A run whose Google Doc publisher failed, whose Markdown publisher then
\* wrote the report, and which exited with status 0.
C20_Witness ==
    /\ pc = "exited"
    /\ exit_code = 0
    /\ CallsOf("generate_report_failed") # {}
    /\ CallsOf("generate_markdown_report") # {}
    /\ Len(deal_updates) + Len(agency_updates) + Len(tech_updates) >= 2

\* A run whose Google Doc publisher failed and whose fallback failed too.
C20_WitnessFallbackFails ==
    /\ pc = "exited"
    /\ exception = "OSError"
    /\ CallsOf("generate_report_failed") # {}

----------------------------------------------------------------------------
(* parse_content_sections.                                                 *)

\* the matches of the label pattern in the cleaned text of the call
ParseMatches == FindIter(clean_content(raw_text), 1)

\* the whole-text fallback of the call
SummaryFallback == <<Field(s_Summary, clean_content(raw_text))>>

\* the text between the marker of match k and the start of the next match,
\* or the end of the text, without the white space around it
LabelSpan(k) ==
    LET cleaned == clean_content(raw_text)
        stop == IF k < Len(ParseMatches) THEN ParseMatches[k + 1].start - 1
                ELSE Len(cleaned)
    IN Strip(SubSeq(cleaned, ParseMatches[k].end, stop))

\* C23: parse_content_sections returns the single field (Summary, whole
\* cleaned text) when the text holds no recognized label followed by ":" or
\* "-"; when a label is found it returns labeled fields only, never the
\* whole-text Summary fallback.
C23_SummaryFallback ==
    pc = "parsed" =>
       /\ (ParseMatches = <<>> /\ clean_content(raw_text) # <<>>)
             => parse_result = SummaryFallback
       /\ ParseMatches # <<>> =>
             /\ parse_result # SummaryFallback
             /\ \A j \in 1..Len(parse_result) :
                   \E k \in 1..Len(ParseMatches) :
                      parse_result[j].label = ParseMatches[k].label

\* C24: when labels are found, the content of each returned field is the
\* text between the end of its label marker and the start of the next
\* recognized label (or the end of the text), the fields are in text order,
\* and text before the first label is in no field.
C24_LabelSpans ==
    (pc = "parsed" /\ ParseMatches # <<>>) =>
       \E f \in [1..Len(parse_result) -> 1..Len(ParseMatches)] :
          /\ \A j \in 1..Len(parse_result) :
                parse_result[j] = Field(ParseMatches[f[j]].label, LabelSpan(f[j]))
          /\ \A j \in 1..(Len(parse_result) - 1) : f[j] < f[j + 1]

\* the text of end-to-end scenario 4
BoldActivityText ==
    <<"*", "*", "A", "c", "t", "i", "v", "i", "t", "y", ":", "*", "*", " ", "S", "h", "i", "p", "p", "e", "d", " ", "v", "2", "\n", "R", "i", "s", "k", "s", ":", " ", "n", "o", "n", "e">>

\* C25: the cleanup runs before the labels are looked for, so a label in
\* bold markup is recognized: the text of scenario 4 yields exactly the two
\* fields Activity = "Shipped v2" and Risks = "none".
C25_BoldLabelRecognized ==
    (pc = "parsed" /\ raw_text = BoldActivityText) =>
       parse_result = <<Field(<<"A", "c", "t", "i", "v", "i", "t", "y">>, <<"S", "h", "i", "p", "p", "e", "d", " ", "v", "2">>), Field(<<"R", "i", "s", "k", "s">>, <<"n", "o", "n", "e">>)>>

----------------------------------------------------------------------------
(* The publishers.                                                         *)

\* the document store holds a document of this call
NewDocs == {k \in 1..Len(docs) : docs[k].title = ReportTitle(report_date)}

\* C21: after generate_report ends, either the Google Doc exists with the
\* complete report content applied, or, on failure, no new document has
\* been left behind in the document store.
C21_AllOrNothing ==
    /\ pc = "report_done" =>
          \E k \in NewDocs :
             /\ NewDocs = {k}
             /\ docs[k].body = build_document_requests(deal_updates, agency_updates,
                                                       tech_updates, report_date)
    /\ (pc \in {"report_failed", "markdown_done"} /\ exception # "none") =>
          NewDocs = {}

Heading(level, text) == [level |-> level, text |-> text]

\* the headings one class must give: its title, then one per entity of its
\* mapping, in the mapping's order
ClassOutline(title, updates) ==
    IF updates = <<>> THEN <<>>
    ELSE <<Heading("HEADING_1", title)>>
         \o [k \in 1..Len(updates) |-> Heading("HEADING_2", updates[k].name)]

ExpectedOutline ==
    <<Heading("HEADING_1", ReportTitle(report_date))>>
    \o ClassOutline(s_Deal_Updates, deal_updates)
    \o ClassOutline(s_Agency_Partner_Updates, agency_updates)
    \o ClassOutline(s_Tech_Alliances, tech_updates)

\* the headings of a request list: the paragraphs given a heading style,
\* each with the text inserted just before over the same range
RECURSIVE RequestOutline(_, _)
RequestOutline(reqs, k) ==
    IF k > Len(reqs) THEN <<>>
    ELSE (IF reqs[k].kind = "updateParagraphStyle"
          THEN IF /\ k > 1
                  /\ reqs[k - 1].kind = "insertText"
                  /\ reqs[k - 1].start = reqs[k].start
                  /\ reqs[k].end = reqs[k].start + Len(reqs[k - 1].text)
                  /\ reqs[k - 1].text # <<>>
                  /\ reqs[k - 1].text[Len(reqs[k - 1].text)] = "\n"
               THEN <<Heading(reqs[k].style,
                              SubSeq(reqs[k - 1].text, 1, Len(reqs[k - 1].text) - 1))>>
               ELSE <<Heading("unplaced", <<>>)>>
          ELSE <<>>)
         \o RequestOutline(reqs, k + 1)

IsHeadingLine(line) == line # <<>> /\ line[1] = "#"

\* the heading a line of the Markdown report stands for
LineHeading(line) ==
    IF Len(line) >= 3 /\ SubSeq(line, 1, 3) = <<"#", "#", " ">>
    THEN Heading("HEADING_2", SubSeq(line, 4, Len(line)))
    ELSE IF Len(line) >= 2 /\ SubSeq(line, 1, 2) = <<"#", " ">>
    THEN Heading("HEADING_1", SubSeq(line, 3, Len(line)))
    ELSE Heading("unplaced", <<>>)

MarkdownOutline(lines) ==
    LET hs == SelectSeq(lines, IsHeadingLine)
    IN [k \in 1..Len(hs) |-> LineHeading(hs[k])]

\* C22: in the Google Doc request list and in the Markdown report, a
\* top-level section (Deal Updates, Agency Partner Updates, Tech Alliances)
\* is emitted if and only if its mapping is non-empty, the emitted sections
\* keep that order, and each has one subsection per entity of its mapping.
C22_EmptyClassesOmitted ==
    /\ requests # <<>> => RequestOutline(requests, 1) = ExpectedOutline
    /\ report_lines # <<>> => MarkdownOutline(report_lines) = ExpectedOutline

\* Both publishers have built a report with no deal, one agency partner and
\* one tech partner: the Google Doc requests were built before batchUpdate
\* failed, and the Markdown report was written as the fallback.
C22_Witness ==
    /\ pc = "markdown_done"
    /\ requests # <<>>
    /\ report_lines # <<>>
    /\ deal_updates = <<>>
    /\ agency_updates # <<>>
    /\ tech_updates # <<>>

\* A Google Doc published with two deals and no partner.
C22_WitnessDealsOnly ==
    /\ pc = "report_done"
    /\ Len(deal_updates) = 2
    /\ agency_updates = <<>>
    /\ tech_updates = <<>>
    /\ Len(RequestOutline(requests, 1)) = 4

----------------------------------------------------------------------------
(* fetch_meetings.                                                         *)

\* the event of the listing a returned meeting was made from
EventOf(meeting) ==
    calendar[CHOOSE k \in 1..Len(calendar) : ToString(k) = meeting.event_id]

\* the domains of the attendees' addresses, lower-cased
AttendeeDomains(attendees) ==
    {Lower(AfterFirst(a, "@")) : a \in {x \in Range(attendees) : "@" \in Range(x)}}

\* C26: every meeting fetch_meetings returns is neither tagged with an
\* excluded colour id nor internal-only; its domain set is non-empty and
\* never contains the internal domain.
C26_MeetingPreFilter ==
    pc = "fetched" =>
       \A k \in 1..Len(meetings) :
          /\ EventOf(meetings[k]).colorId \notin {"1", "3", "6", "8"}
          /\ AttendeeDomains(meetings[k].attendees) \ {internal_domain} # {}
          /\ meetings[k].domains # {}
          /\ internal_domain \notin meetings[k].domains
          /\ meetings[k].domains \subseteq AttendeeDomains(meetings[k].attendees)

\* A listing of two events of which the internal-only one was dropped and
\* the one with an external attendee was returned.
C26_Witness ==
    /\ pc = "fetched"
    /\ Len(calendar) = 2
    /\ Len(meetings) = 1
    /\ \E k \in 1..2 :
          /\ calendar[k].colorId = ""
          /\ calendar[k].timed
          /\ calendar[k].attendees # <<>>
          /\ AttendeeDomains(calendar[k].attendees) = {internal_domain}
          /\ meetings[1].event_id # ToString(k)

----------------------------------------------------------------------------
(* run_interview.                                                          *)

\* the entries of the line typed at the removal prompt
Entered == SplitOn(response, ",")

\* the positions of the loaded list that no entry names
KeptPositions ==
    {p \in 1..Len(loaded_deals) : \A k \in 1..Len(Entered) : IntOf(Entered[k]) # p}

\* C28: in the review step, if the removal input contains an entry that is
\* not an integer, no deal is removed and the persisted list is unchanged;
\* otherwise exactly the deals at the entered 1-based positions are removed
\* and the remaining deals keep their order.
C28_RemovalByPosition ==
    pc = "reviewed" =>
       IF \E k \in 1..Len(Entered) : ~IntValid(Entered[k])
       THEN active_deals = loaded_deals
       ELSE /\ Len(active_deals) = Cardinality(KeptPositions)
            /\ \E f \in [1..Len(active_deals) -> KeptPositions] :
                  /\ \A j \in 1..Len(active_deals) : active_deals[j] = loaded_deals[f[j]]
                  /\ \A j \in 1..(Len(active_deals) - 1) : f[j] < f[j + 1]

\* A review in which a valid position and an entry that is no integer were
\* typed, and every deal was kept.
C28_Witness ==
    /\ pc = "reviewed"
    /\ Len(Entered) = 2
    /\ IntValid(Entered[1]) /\ IntOf(Entered[1]) \in 1..Len(loaded_deals)
    /\ ~IntValid(Entered[2]) /\ Entered[2] # <<>>
    /\ loaded_deals # <<>>
    /\ active_deals = loaded_deals

\* A review of three deals in which the first and the third were removed.
C28_WitnessRemoval ==
    /\ pc = "reviewed"
    /\ Len(loaded_deals) = 3
    /\ Len(Entered) = 2
    /\ IntValid(Entered[1]) /\ IntValid(Entered[2])
    /\ {IntOf(Entered[1]), IntOf(Entered[2])} = {1, 3}
    /\ active_deals = <<loaded_deals[2]>>

----------------------------------------------------------------------------
(* The exit paths of main.                                                 *)

\* C27: on every exit path of main, stop_ollama is called if and only if
\* this run started the Ollama server: a server that was already running is
\* never stopped, and a server process this run spawned is never left
\* running.
C27_CleanupOwnership ==
    pc = "exited" =>
       /\ CallsOf("ollama_serve") = {} => CallsOf("stop_ollama") = {}
       /\ CallsOf("ollama_serve") # {} =>
             CallsOf("stop_ollama") # {} /\ ollama = "stopped"

\* the calls of a publisher that returned
Published ==
    {k \in Events :
        \/ /\ events[k].op = "generate_report"
           /\ ~(k < Len(events) /\ events[k + 1].op = "generate_report_failed")
        \/ /\ events[k].op = "generate_markdown_report"
           /\ exception # "OSError"}

\* C30: git_commit is invoked only after a report was successfully produced
\* in the run (Google Doc or Markdown) and only when --no-commit is not
\* set; a run that ends with zero updates, in dry-run mode, on a
\* prerequisite failure or with both publishers failing performs no commit.
C30_CommitAfterReport ==
    /\ \A k \in CallsOf("git_commit") :
          /\ ~args.no_commit
          /\ \E j \in Published : j < k
    /\ (\/ args.dry_run
        \/ PrerequisiteMissing
        \/ pc = "exited" /\ Len(deal_updates) + Len(agency_updates)
                                + Len(tech_updates) = 0
        \/ pc = "exited" /\ Published = {})
          => CallsOf("git_commit") = {}
    /\ (pc = "exited" /\ args.no_commit) => CallsOf("git_commit") = {}

\* A run whose Google Doc publisher failed, whose Markdown fallback wrote
\* the report, and which then committed.
C30_Witness ==
    /\ pc = "exited"
    /\ CallsOf("generate_report_failed") # {}
    /\ Published # {}
    /\ CallsOf("git_commit") # {}

\* A run that published a report and, --no-commit being set, did not commit.
C30_WitnessNoCommit ==
    /\ pc = "exited"
    /\ args.no_commit
    /\ Published # {}
    /\ CallsOf("git_commit") = {}

----------------------------------------------------------------------------
(* The company name of a partner's meeting.                                *)

PartnerDomains ==
    {agency_partners[k].domain : k \in 1..Len(agency_partners)}
       \cup {tech_partners[k].domain : k \in 1..Len(tech_partners)}

\* the meeting of call k is tracked, and for partners only
PartnerOnly(k) ==
    /\ calls[k].meeting.domains # {}
    /\ calls[k].meeting.domains \subseteq PartnerDomains
    /\ calls[k].meeting.domains \cap DOMAIN deals = {}

\* C29: the company name passed to the matcher is resolved from the deals
\* mapping alone; for a meeting whose tracked domains all belong to agency
\* or tech partners the company name is empty, and the company-name
\* strategy is not attempted: a note is returned for it only by the
\* attendee or the title strategy.
C29_CompanyFromDealsOnly ==
    \A k \in Calls :
       /\ calls[k].company_name \in
             {<<>>} \cup {deals[d] : d \in calls[k].meeting.domains \cap DOMAIN deals}
       /\ PartnerOnly(k) =>
             /\ calls[k].company_name = <<>>
             /\ calls[k].note =
                   match_meeting_to_note(calls[k].meeting.date, calls[k].meeting.title,
                                         calls[k].meeting.attendees, <<>>, notes,
                                         calls[k].threshold)

\* A meeting with the agency partner alone, matched against a note of its
\* day whose company the partner's name would match: the company name of
\* the call is empty and no note is returned.
C29_Witness ==
    \E k \in Calls :
       /\ PartnerOnly(k)
       /\ calls[k].company_name = <<>>
       /\ calls[k].note = NoNote
       /\ \E n \in Range(notes) :
             /\ n.date = calls[k].meeting.date
             /\ CompanyHit(s_Zed, n, calls[k].threshold)

====
